---- MODULE Spec2Model ----
(***************************************************************************)
(* A model of LabJackPython.py (version 0.7.0): the checksum functions,    *)
(* the response validation and the Device session (write, read, ping,      *)
(* reset, register access, close) on the posix code paths, over the two    *)
(* transport bindings of the module: the liblabjackusb bulk endpoints and  *)
(* the three sockets of a UE9TCPHandle.                                    *)
(*                                                                         *)
(* Python lists are sequences; the source's 0-based index i is position    *)
(* i + 1 (operators Py and PySet), so the definitions keep the indices of  *)
(* the source.  A function that mutates its argument in place returns the  *)
(* new contents of the caller's list in the field "buf".                   *)
(***************************************************************************)
EXTENDS Integers, Sequences, FiniteSets, TLC

(***************************************************************************)
(* Bounds of the model.                                                    *)
(***************************************************************************)
\* longest frame drawn from ByteVals (frames of every length 0..MaxLen)
MaxLen == 8
\* number of bytes a caller of _writeRead asks for (readLen)
MaxReadLen == 8

\* the largest device count LJUSB_GetDevCount reports
MaxDevices == 2

\* how long the receive loop of a discovery is followed, in ticks
MaxTicks == 6

\* the ticks of the clock in one second
TicksPerSecond == 2

\* Byte values of the generated frames: 0x00 and 0x80 have class nibble 0
\* (normal command), 0xFF has class nibble 15 (extended command); sums of
\* them reach both rounds of the carry fold and a non-zero checksum16 high
\* byte.
ByteVals == {0, 128, 255}

(***************************************************************************)
(* Integer helpers for the bit operators of the source.                    *)
(***************************************************************************)
RECURSIVE BitAnd(_, _)
BitAnd(a, b) ==
    IF a = 0 \/ b = 0 THEN 0
    ELSE (a % 2) * (b % 2) + 2 * BitAnd(a \div 2, b \div 2)

RECURSIVE Pow2(_)
Pow2(n) == IF n = 0 THEN 1 ELSE 2 * Pow2(n - 1)

ShiftR(a, n) == a \div Pow2(n)

Py(buffer, i) == buffer[i + 1]

PySet(buffer, i, v) == [buffer EXCEPT ![i + 1] = v]

\* buffer[lo:hi] of Python, clipped to the list as slicing does
PySlice(buffer, lo, hi) ==
    LET h == IF hi > Len(buffer) THEN Len(buffer) ELSE hi
    IN  IF lo >= h THEN << >> ELSE [k \in 1..(h - lo) |-> buffer[lo + k]]

Zeros(n) == [k \in 1..n |-> 0]

\* x = v followed by code that uses x: Only({code : x \in {v}})
Only(S) == CHOOSE x \in S : TRUE

(***************************************************************************)
(* Exceptions.  "none" is a normal return.                                 *)
(***************************************************************************)
NoExc == "none"

LJE_HandleNone   == "LabJackException: The device handle is None."
LJE_TooShort     == "LabJackException: Command does not contain enough bytes."
LJE_SetChecksum  == "LabJackException: SetChecksum Exception"
LJE_ShortWrite   == "LabJackException: Could only write"
LJE_ReadOkNow    == "LabJackException: Read had a problem, but it's ok now."
LJE_BadChecksum  == "LabJackException: Device detected a bad checksum."
LJE_CommandBytes == "LabJackException: Got incorrect command bytes."
LJE_Checksum     == "LabJackException: Checksum was incorrect."
LJE_DeviceError  == "LabJackException: Command returned with error number"
LJE_Reset        == "LabJackException: Unable to reset labjack"
LJE_WriteReg     == "LabJackException: Error writing register."
LJE_LABJACK_NOT_FOUND == "LabJackException: 1007"
LJE_ListAllU3    == "LabJackException: Error in listAllU3"
LJE_ListAllU6    == "LabJackException: Error in listAllU6"
LJE_LoadLibrary  == "LabJackException: Could not load labjackusb driver."
LJE_Connect      == "LabJackException: Could not connect to labjack"
SocketError      == "socket.error"
IndexError       == "IndexError"
StructError      == "struct.error"

LabJackExceptions ==
    {LJE_HandleNone, LJE_TooShort, LJE_SetChecksum, LJE_ShortWrite,
     LJE_ReadOkNow, LJE_BadChecksum, LJE_CommandBytes, LJE_Checksum,
     LJE_DeviceError, LJE_Reset, LJE_WriteReg, LJE_LABJACK_NOT_FOUND,
     LJE_ListAllU3, LJE_ListAllU6, LJE_LoadLibrary, LJE_Connect}

\* the classes caught by "except Exception"
PyExceptions == LabJackExceptions \cup {SocketError, IndexError, StructError}

(***************************************************************************)
(* The checksum functions.                                                 *)
(***************************************************************************)
\* for i in range(lo, hi): total += (buffer[i] & 0xff)
RECURSIVE SumLoop(_, _, _)
SumLoop(buffer, lo, hi) ==
    IF lo >= hi THEN 0
    ELSE BitAnd(Py(buffer, lo), 255) + SumLoop(buffer, lo + 1, hi)

setChecksum16_swapped(buffer) ==
    Only({PySet(PySet(buffer, 5, BitAnd(total, 255)),
                4, BitAnd(ShiftR(total, 8), 255)) :
          total \in {SumLoop(buffer, 6, Len(buffer))}})

setChecksum16(buffer) ==
    Only({PySet(PySet(buffer, 4, BitAnd(total, 255)),
                5, BitAnd(ShiftR(total, 8), 255)) :
          total \in {SumLoop(buffer, 6, Len(buffer))}})

setChecksum8_from0(buffer, numBytes) ==
    Only({PySet(buffer, 0, BitAnd(b0, 255) + BitAnd(ShiftR(b0, 8), 255)) :
          b0 \in {BitAnd(total, 255) + BitAnd(ShiftR(total, 8), 255) :
                  total \in {SumLoop(buffer, 0, numBytes)}}})

\* total is folded twice: total = (total & 0xff) + ((total >> 8) & 0xff)
setChecksum8(buffer, numBytes) ==
    Only({PySet(buffer, 0, BitAnd(b0, 255) + BitAnd(ShiftR(b0, 8), 255)) :
          b0 \in {BitAnd(total, 255) + BitAnd(ShiftR(total, 8), 255) :
                  total \in {SumLoop(buffer, 1, numBytes)}}})

\* setChecksum with the length test one byte too low
setChecksum_len7(command) ==
    IF Len(command) < 7
    THEN [exc |-> LJE_TooShort, buf |-> command]
    ELSE LET a == ShiftR(BitAnd(Py(command, 1), 120), 3)
         IN  IF a = 15
             THEN [exc |-> NoExc,
                   buf |-> setChecksum8(setChecksum16(command), 6)]
             ELSE [exc |-> NoExc,
                   buf |-> setChecksum8(command, Len(command))]

\* exc: the exception raised, buf: the caller's list after the call (the
\* list is changed in place and is also the value returned)
setChecksum(command) ==
    IF Len(command) < 8
    THEN [exc |-> LJE_TooShort, buf |-> command]
    ELSE LET a == ShiftR(BitAnd(Py(command, 1), 120), 3)
         IN  IF a = 15
             THEN [exc |-> NoExc,
                   buf |-> setChecksum8(setChecksum16(command), 6)]
             ELSE [exc |-> NoExc,
                   buf |-> setChecksum8(command, Len(command))]

verifyChecksum_unverified(buffer) ==
    [exc |-> NoExc, ret |-> TRUE, buf |-> buffer]

\* buff0, buff4, buff5 are read first (IndexError on a list shorter than 6),
\* then setChecksum works on the caller's list itself: tempBuffer is the
\* same object as buffer
verifyChecksum(buffer) ==
    IF Len(buffer) < 6
    THEN [exc |-> IndexError, ret |-> FALSE, buf |-> buffer]
    ELSE Only({IF sc.exc # NoExc
               THEN [exc |-> sc.exc, ret |-> FALSE, buf |-> sc.buf]
               ELSE [exc |-> NoExc,
                     ret |-> /\ Py(buffer, 0) = Py(sc.buf, 0)
                             /\ Py(buffer, 4) = Py(sc.buf, 4)
                             /\ Py(buffer, 5) = Py(sc.buf, 5),
                     buf |-> sc.buf] :
               sc \in {setChecksum(buffer)}})

(***************************************************************************)
(* The transport bindings.                                                 *)
(*                                                                         *)
(* A handle value h is "None", "USB" (a liblabjackusb device pointer) or   *)
(* "TCP" (a UE9TCPHandle).  sk is the state of the three sockets of the    *)
(* UE9TCPHandle.  Every call into the native library or on a socket is     *)
(* recorded as a Call.  The outcome of a transport call is an input:       *)
(*   w  of a write: "all" bytes accepted, "part" of them, or "err"         *)
(*   r  of a read:  r.data the bytes delivered (at most the number asked   *)
(*      for), r.err the transfer failed, r.conn the reconnect of the       *)
(*      register socket succeeds                                           *)
(***************************************************************************)
Call(fn, h, bytes, n) == [fn |-> fn, h |-> h, bytes |-> bytes, n |-> n]

WriteOutcomes == {"all", "part", "err"}

\* the value LJUSB_BulkWrite returns
BulkWriteCount(w, len) ==
    IF w = "all" THEN len
    ELSE IF w = "part" /\ len > 0 THEN len - 1
    ELSE -1

\* the value LJUSB_BulkRead returns
BulkReadCount(r) == IF r.err THEN -1 ELSE Len(r.data)

\* the transport call of a write that stores the [0, 0] pad into the
\* caller's list
SendBuffer_padInPlace(h, sc, modbus, w) ==
    IF sc.exc # NoExc
    THEN [exc |-> sc.exc, calls |-> << >>, buf |-> sc.buf]
    ELSE IF h = "TCP"
    THEN [exc   |-> IF w = "err" THEN SocketError ELSE NoExc,
          calls |-> <<Call(IF modbus THEN "modbus.send" ELSE "data.send",
                           h, sc.buf, Len(sc.buf))>>,
          buf   |-> sc.buf]
    ELSE LET out        == IF modbus THEN <<0, 0>> \o sc.buf ELSE sc.buf
             writeBytes == BulkWriteCount(w, Len(out))
         IN  [exc   |-> IF writeBytes # Len(out) THEN LJE_ShortWrite
                        ELSE NoExc,
              calls |-> <<Call("LJUSB_BulkWrite", h, out, Len(out))>>,
              buf   |-> out]

\* the transport call of Device.write on the list sc.buf that setChecksum
\* left (sc.exc: the exception setChecksum raised)
SendBuffer(h, sc, modbus, w) ==
    IF sc.exc # NoExc
    THEN [exc |-> sc.exc, calls |-> << >>, buf |-> sc.buf]
    ELSE IF h = "TCP"
    THEN [exc   |-> IF w = "err" THEN SocketError ELSE NoExc,
          calls |-> <<Call(IF modbus THEN "modbus.send" ELSE "data.send",
                           h, sc.buf, Len(sc.buf))>>,
          buf   |-> sc.buf]
    ELSE LET out        == IF modbus THEN <<0, 0>> \o sc.buf ELSE sc.buf
             writeBytes == BulkWriteCount(w, Len(out))
         IN  [exc   |-> IF writeBytes # Len(out) THEN LJE_ShortWrite
                        ELSE NoExc,
              calls |-> <<Call("LJUSB_BulkWrite", h, out, Len(out))>>,
              buf   |-> sc.buf]

\* Device.write without the test of self.handle
DeviceWrite_nocheck(h, writeBuffer, modbus, checksum, w) ==
    Only({SendBuffer(h, sc, modbus, w) :
          sc \in {IF checksum THEN setChecksum(writeBuffer)
                  ELSE [exc |-> NoExc, buf |-> writeBuffer]}})

\* Device.write(writeBuffer, modbus, checksum).  buf is the caller's list
\* after the call: setChecksum writes into it, the [0, 0] pad of the USB
\* register write goes into a new list.
DeviceWrite(h, writeBuffer, modbus, checksum, w) ==
    IF h = "None"
    THEN [exc |-> LJE_HandleNone, calls |-> << >>, buf |-> writeBuffer]
    ELSE Only({SendBuffer(h, sc, modbus, w) :
               sc \in {IF checksum THEN setChecksum(writeBuffer)
                       ELSE [exc |-> NoExc, buf |-> writeBuffer]}})

\* Device.read raising the retry signal whether or not the connect went
\* through
DeviceRead_alwaysSignal(h, sk, numBytes, stream, modbus, r) ==
    IF h = "None"
    THEN [exc |-> LJE_HandleNone, ret |-> << >>, kind |-> "list",
          calls |-> << >>, sk |-> sk]
    ELSE IF h = "TCP"
    THEN IF stream
         THEN [exc   |-> IF r.err THEN SocketError ELSE NoExc,
               ret   |-> IF r.err THEN << >> ELSE r.data,
               kind  |-> "tuple",
               calls |-> <<Call("stream.recv", h, << >>, numBytes)>>,
               sk    |-> sk]
         ELSE IF modbus
         THEN IF r.err
              THEN \* handle.modbus is replaced by a new socket, which is
                   \* connected; the LabJackException is raised only when
                   \* the connect went through
                   [exc   |-> LJE_ReadOkNow,
                    ret   |-> << >>,
                    kind  |-> "tuple",
                    calls |-> <<Call("modbus.recv", h, << >>, numBytes),
                                Call("modbus.connect", h, << >>, 502)>>,
                    sk    |-> [sk EXCEPT !.modbus =
                                  IF r.conn THEN "open" ELSE "unconnected"]]
              ELSE [exc   |-> NoExc, ret |-> r.data, kind |-> "tuple",
                    calls |-> <<Call("modbus.recv", h, << >>, numBytes)>>,
                    sk    |-> sk]
         ELSE [exc   |-> IF r.err THEN SocketError ELSE NoExc,
               ret   |-> IF r.err THEN << >> ELSE r.data,
               kind  |-> "tuple",
               calls |-> <<Call("data.recv", h, << >>, numBytes)>>,
               sk    |-> sk]
    ELSE LET readBytes == BulkReadCount(r)
         IN  [exc   |-> NoExc,
              ret   |-> IF readBytes <= 0 THEN << >>
                        ELSE [i \in 1..readBytes |->
                                 BitAnd(r.data[i], 255)],
              kind  |-> "list",
              calls |-> <<Call("LJUSB_BulkRead", h,
                               <<IF stream THEN 4 ELSE 2>>, numBytes)>>,
              sk    |-> sk]

\* Device.read(numBytes, stream, modbus).  ret is the value returned, kind
\* its Python type (struct.unpack gives a tuple on TCP, the USB path builds
\* a list), sk the sockets after the call.
DeviceRead(h, sk, numBytes, stream, modbus, r) ==
    IF h = "None"
    THEN [exc |-> LJE_HandleNone, ret |-> << >>, kind |-> "list",
          calls |-> << >>, sk |-> sk]
    ELSE IF h = "TCP"
    THEN IF stream
         THEN [exc   |-> IF r.err THEN SocketError ELSE NoExc,
               ret   |-> IF r.err THEN << >> ELSE r.data,
               kind  |-> "tuple",
               calls |-> <<Call("stream.recv", h, << >>, numBytes)>>,
               sk    |-> sk]
         ELSE IF modbus
         THEN IF r.err
              THEN \* handle.modbus is replaced by a new socket, which is
                   \* connected; the LabJackException is raised only when
                   \* the connect went through
                   [exc   |-> IF r.conn THEN LJE_ReadOkNow ELSE SocketError,
                    ret   |-> << >>,
                    kind  |-> "tuple",
                    calls |-> <<Call("modbus.recv", h, << >>, numBytes),
                                Call("modbus.connect", h, << >>, 502)>>,
                    sk    |-> [sk EXCEPT !.modbus =
                                  IF r.conn THEN "open" ELSE "unconnected"]]
              ELSE [exc   |-> NoExc, ret |-> r.data, kind |-> "tuple",
                    calls |-> <<Call("modbus.recv", h, << >>, numBytes)>>,
                    sk    |-> sk]
         ELSE [exc   |-> IF r.err THEN SocketError ELSE NoExc,
               ret   |-> IF r.err THEN << >> ELSE r.data,
               kind  |-> "tuple",
               calls |-> <<Call("data.recv", h, << >>, numBytes)>>,
               sk    |-> sk]
    ELSE LET readBytes == BulkReadCount(r)
         IN  [exc   |-> NoExc,
              ret   |-> IF readBytes <= 0 THEN << >>
                        ELSE [i \in 1..readBytes |->
                                 BitAnd(r.data[i], 255)],
              kind  |-> "list",
              calls |-> <<Call("LJUSB_BulkRead", h,
                               <<IF stream THEN 4 ELSE 2>>, numBytes)>>,
              sk    |-> sk]

\* Device._checkCommandBytes(results, commandBytes), commandBytes a list.
\* A tuple never equals a list, so the slice of a tuple result always
\* differs from commandBytes.  buf is the results list after the call.
checkCommandBytes(results, kind, commandBytes) ==
    IF Len(results) = 0 \/ (Py(results, 0) = 184 /\ Len(results) < 2)
    THEN [exc |-> IndexError, buf |-> results]
    ELSE IF Py(results, 0) = 184 /\ Py(results, 1) = 184
    THEN [exc |-> LJE_BadChecksum, buf |-> results]
    ELSE IF kind = "tuple"
            \/ PySlice(results, 1, Len(commandBytes) + 1) # commandBytes
    THEN [exc |-> LJE_CommandBytes, buf |-> results]
    ELSE Only({IF v.exc # NoExc THEN [exc |-> v.exc, buf |-> v.buf]
               ELSE IF ~v.ret THEN [exc |-> LJE_Checksum, buf |-> v.buf]
               ELSE IF Py(v.buf, 6) # 0
               THEN [exc |-> LJE_DeviceError, buf |-> v.buf]
               ELSE [exc |-> NoExc, buf |-> v.buf] :
               v \in {verifyChecksum(results)}})

\* Device._writeRead(command, readLen, commandBytes, checkBytes, checksum).
\* raw is the value read returned and checked tells whether
\* _checkCommandBytes was called on it; ret is the list returned.
writeRead(h, sk, command, readLen, commandBytes, checkBytes, checksum, w, r) ==
    Only({IF wr.exc # NoExc
          THEN [exc |-> wr.exc, ret |-> << >>, kind |-> "list",
                raw |-> << >>, checked |-> FALSE,
                calls |-> wr.calls, buf |-> wr.buf, sk |-> sk]
          ELSE Only({IF rd.exc # NoExc
                     THEN [exc |-> rd.exc, ret |-> << >>, kind |-> rd.kind,
                           raw |-> << >>, checked |-> FALSE,
                           calls |-> wr.calls \o rd.calls, buf |-> wr.buf,
                           sk |-> rd.sk]
                     ELSE Only({[exc |-> ck.exc,
                                 ret |-> IF ck.exc = NoExc THEN ck.buf
                                         ELSE << >>,
                                 kind |-> rd.kind,
                                 raw |-> rd.ret, checked |-> checkBytes,
                                 calls |-> wr.calls \o rd.calls,
                                 buf |-> wr.buf, sk |-> rd.sk] :
                                ck \in {IF checkBytes
                                        THEN checkCommandBytes(rd.ret,
                                                 rd.kind, commandBytes)
                                        ELSE [exc |-> NoExc,
                                              buf |-> rd.ret]}}) :
                     rd \in {DeviceRead(h, sk, readLen, FALSE, FALSE, r)}}) :
          wr \in {DeviceWrite(h, command, FALSE, checksum, w)}})

\* _modbusWriteRead with "except Exception": the second cycle runs after
\* every exception of the first read
modbusWriteRead_anyExc(h, sk, request, numBytes, e) ==
    Only({IF w1.exc # NoExc
          THEN [exc |-> w1.exc, ret |-> << >>, calls |-> w1.calls,
                buf |-> w1.buf, sk |-> sk]
          ELSE Only({IF r1.exc = NoExc
                     THEN [exc |-> r1.exc, ret |-> r1.ret,
                           calls |-> w1.calls \o r1.calls,
                           buf |-> w1.buf, sk |-> r1.sk]
                     ELSE Only({IF w2.exc # NoExc
                                THEN [exc |-> w2.exc, ret |-> << >>,
                                      calls |-> w1.calls \o r1.calls
                                                \o w2.calls,
                                      buf |-> w2.buf, sk |-> r1.sk]
                                ELSE Only({[exc |-> r2.exc, ret |-> r2.ret,
                                            calls |-> w1.calls \o r1.calls
                                                \o w2.calls \o r2.calls,
                                            buf |-> w2.buf, sk |-> r2.sk] :
                                           r2 \in {DeviceRead(h, r1.sk,
                                                       numBytes, FALSE, TRUE,
                                                       e.r2)}}) :
                                w2 \in {DeviceWrite(h, w1.buf, TRUE, FALSE,
                                                    e.w2)}}) :
                     r1 \in {DeviceRead(h, sk, numBytes, FALSE, TRUE,
                                        e.r1)}}) :
          w1 \in {DeviceWrite(h, request, TRUE, FALSE, e.w1)}})

\* Device._modbusWriteRead(request, numBytes): the second cycle runs only
\* when the first read raised a LabJackException
modbusWriteRead(h, sk, request, numBytes, e) ==
    Only({IF w1.exc # NoExc
          THEN [exc |-> w1.exc, ret |-> << >>, calls |-> w1.calls,
                buf |-> w1.buf, sk |-> sk]
          ELSE Only({IF r1.exc = NoExc \/ r1.exc \notin LabJackExceptions
                     THEN [exc |-> r1.exc, ret |-> r1.ret,
                           calls |-> w1.calls \o r1.calls,
                           buf |-> w1.buf, sk |-> r1.sk]
                     ELSE Only({IF w2.exc # NoExc
                                THEN [exc |-> w2.exc, ret |-> << >>,
                                      calls |-> w1.calls \o r1.calls
                                                \o w2.calls,
                                      buf |-> w2.buf, sk |-> r1.sk]
                                ELSE Only({[exc |-> r2.exc, ret |-> r2.ret,
                                            calls |-> w1.calls \o r1.calls
                                                \o w2.calls \o r2.calls,
                                            buf |-> w2.buf, sk |-> r2.sk] :
                                           r2 \in {DeviceRead(h, r1.sk,
                                                       numBytes, FALSE, TRUE,
                                                       e.r2)}}) :
                                w2 \in {DeviceWrite(h, w1.buf, TRUE, FALSE,
                                                    e.w2)}}) :
                     r1 \in {DeviceRead(h, sk, numBytes, FALSE, TRUE,
                                        e.r1)}}) :
          w1 \in {DeviceWrite(h, request, TRUE, FALSE, e.w1)}})

(***************************************************************************)
(* The register codec (module Modbus, imported at line 64).  Only what the *)
(* Device methods use of it: the request frames and the payload of a read  *)
(* response.                                                               *)
(***************************************************************************)
HiByte(x) == (x \div 256) % 256

LoByte(x) == x % 256

\* Modbus.readHoldingRegistersRequest(addr, numReg)
readHoldingRegistersRequest(addr, numReg) ==
    <<0, 0, 0, 0, 0, 6, 255, 3, HiByte(addr), LoByte(addr),
      HiByte(numReg), LoByte(numReg)>>

\* Modbus.readHoldingRegistersResponse(response): the register bytes that
\* follow the 9-byte header
readHoldingRegistersResponse(response) ==
    PySlice(response, 9, Len(response))

\* Modbus.writeRegisterRequest(addr, value)
writeRegisterRequest(addr, value) ==
    <<0, 0, 0, 0, 0, 6, 255, 6, HiByte(addr), LoByte(addr),
      HiByte(value), LoByte(value)>>

\* Modbus.writeRegistersRequest(startAddr, values), values a list of two
\* register values
writeRegistersRequest(startAddr, values) ==
    <<0, 0, 0, 0, 0, 11, 255, 16, HiByte(startAddr), LoByte(startAddr),
      0, 2, 4, HiByte(values[1]), LoByte(values[1]),
      HiByte(values[2]), LoByte(values[2])>>

(***************************************************************************)
(* The Device methods.                                                     *)
(***************************************************************************)
LJ_dtUE9 == 9

LJ_dtU3 == 3

LJ_dtU6 == 6

\* the statements of ping inside its try block
pingBody(h, sk, devType, e) ==
    IF devType = LJ_dtUE9
    THEN Only({IF w1.exc # NoExc
               THEN [exc |-> w1.exc, ok |-> FALSE, calls |-> w1.calls,
                     sk |-> sk]
               ELSE Only({IF r1.exc = NoExc
                          THEN [exc |-> NoExc, ok |-> TRUE,
                                calls |-> w1.calls \o r1.calls,
                                sk |-> r1.sk]
                          ELSE IF r1.exc \notin LabJackExceptions
                          THEN [exc |-> r1.exc, ok |-> FALSE,
                                calls |-> w1.calls \o r1.calls,
                                sk |-> r1.sk]
                          ELSE Only({IF w2.exc # NoExc
                                     THEN [exc |-> w2.exc, ok |-> FALSE,
                                           calls |-> w1.calls \o r1.calls
                                                     \o w2.calls,
                                           sk |-> r1.sk]
                                     ELSE Only({[exc |-> r2.exc,
                                                 ok |-> r2.exc = NoExc,
                                                 calls |-> w1.calls
                                                     \o r1.calls \o w2.calls
                                                     \o r2.calls,
                                                 sk |-> r2.sk] :
                                                r2 \in {DeviceRead(h, r1.sk,
                                                    2, FALSE, FALSE,
                                                    e.r2)}}) :
                                     w2 \in {DeviceWrite(h, w1.buf, FALSE,
                                                         TRUE, e.w2)}}) :
                          r1 \in {DeviceRead(h, sk, 2, FALSE, FALSE,
                                             e.r1)}}) :
               w1 \in {DeviceWrite(h, <<112, 112>>, FALSE, TRUE, e.w1)}})
    ELSE IF devType = LJ_dtU3
    THEN Only({IF sc.exc # NoExc
               THEN [exc |-> sc.exc, ok |-> FALSE, calls |-> << >>,
                     sk |-> sk]
               ELSE Only({IF w1.exc # NoExc
                          THEN [exc |-> w1.exc, ok |-> FALSE,
                                calls |-> w1.calls, sk |-> sk]
                          ELSE Only({[exc |-> r1.exc, ok |-> r1.exc = NoExc,
                                      calls |-> w1.calls \o r1.calls,
                                      sk |-> r1.sk] :
                                     r1 \in {DeviceRead(h, sk, 40, FALSE,
                                                        FALSE, e.r1)}}) :
                          w1 \in {DeviceWrite(h, sc.buf, FALSE, TRUE,
                                              e.w1)}}) :
               sc \in {setChecksum(<<0, 248, 1, 42, 0, 0, 0, 0>>)}})
    ELSE [exc |-> NoExc, ok |-> FALSE, calls |-> << >>, sk |-> sk]

\* ping without its "except Exception" handler
ping_nohandler(h, sk, devType, e) ==
    Only({[exc |-> b.exc, ok |-> b.ok, raised |-> b.exc, calls |-> b.calls,
           sk |-> b.sk] :
          b \in {pingBody(h, sk, devType, e)}})

\* Device.ping(): "except Exception" turns every exception of the body
\* (raised) into the return value False
ping(h, sk, devType, e) ==
    Only({[exc    |-> IF b.exc \in PyExceptions THEN NoExc ELSE b.exc,
           ok     |-> IF b.exc \in PyExceptions THEN FALSE ELSE b.ok,
           raised |-> b.exc,
           calls  |-> b.calls,
           sk     |-> b.sk] :
          b \in {pingBody(h, sk, devType, e)}})

\* Device.reset() on posix: every exception of the write, of the read and
\* of the length test is replaced by the "Unable to reset" exception
reset(h, sk, e) ==
    Only({IF w1.exc # NoExc
          THEN [exc |-> LJE_Reset, calls |-> w1.calls, sk |-> sk]
          ELSE Only({IF r1.exc # NoExc \/ Len(r1.ret) # 4
                     THEN [exc |-> LJE_Reset,
                           calls |-> w1.calls \o r1.calls, sk |-> r1.sk]
                     ELSE [exc |-> NoExc, calls |-> w1.calls \o r1.calls,
                           sk |-> r1.sk] :
                     r1 \in {DeviceRead(h, sk, 4, FALSE, FALSE, e.r1)}}) :
          w1 \in {DeviceWrite(h, <<155, 153, 2, 0>>, FALSE, TRUE, e.w1)}})

SocketNames == <<"data", "stream", "modbus">>

\* the sockets of a session: none for USB, three connected ones for TCP
NoSockets == [data |-> "absent", stream |-> "absent", modbus |-> "absent"]

OpenSockets == [data |-> "open", stream |-> "open", modbus |-> "open"]

\* UE9TCPHandle(ipAddress): socket(), connect() and settimeout() for data,
\* stream and modbus in one try block; c names the socket whose connect
\* raises ("none": the three connect).  The handler prints the exception
\* and raises LJE_Connect: the sockets connected before stay open, the one
\* whose connect raised stays created, the later ones are never created.
UE9TCPHandle(c) ==
    IF c = "none" THEN [exc |-> NoExc, sk |-> OpenSockets]
    ELSE [exc |-> LJE_Connect,
          sk  |-> [data   |-> IF c = "data" THEN "unconnected" ELSE "open",
                   stream |-> IF c = "data" THEN "absent"
                              ELSE IF c = "stream" THEN "unconnected"
                              ELSE "open",
                   modbus |-> IF c = "modbus" THEN "unconnected"
                              ELSE "absent"]]

\* UE9TCPHandle.close(): the three closes are in one try block; c names the
\* socket whose close raises ("none": no close raises).  A close that
\* raised has not closed its socket.
RECURSIVE tcpClose(_, _, _)
tcpClose(sk, c, i) ==
    IF i > 3 THEN [sk |-> sk, calls |-> << >>]
    ELSE LET name == SocketNames[i]
             call == Call(name \o ".close", "TCP", << >>, 0)
         IN  IF c = name
             THEN [sk |-> sk, calls |-> <<call>>]
             ELSE Only({[sk |-> rest.sk, calls |-> <<call>> \o rest.calls] :
                        rest \in {tcpClose([sk EXCEPT ![name] = "closed"],
                                           c, i + 1)}})

\* Device.close() on posix.  A handle that is not a UE9TCPHandle goes to
\* LJUSB_CloseDevice, the value None included.
close(h, sk, usb, c) ==
    IF h = "TCP"
    THEN Only({[h |-> "None", sk |-> t.sk, usb |-> usb, calls |-> t.calls] :
               t \in {tcpClose(sk, c, 1)}})
    ELSE [h |-> "None", sk |-> sk,
          usb |-> IF h = "USB" THEN "closed" ELSE usb,
          calls |-> <<Call("LJUSB_CloseDevice", h, << >>, 0)>>]

\* Device.readRegister(addr, numReg)
readRegister(h, sk, addr, numReg, e) ==
    Only({IF m.exc # NoExc THEN m
          ELSE IF Len(m.ret) # 9 + 2 * numReg
          THEN [m EXCEPT !.exc = StructError, !.ret = << >>]
          ELSE [m EXCEPT !.ret = readHoldingRegistersResponse(m.ret)] :
          m \in {modbusWriteRead(h, sk,
                     readHoldingRegistersRequest(addr, numReg),
                     9 + 2 * numReg, e)}})

\* Device.writeRegister(addr, value): a list goes to
\* writeMultipleRegisters, an address of two registers to
\* writeFloatToRegister (request built with pack, value 0.0 or 1.0); only
\* the single-register write compares the response with the request.
writeRegister(h, sk, addr, value, kind, e) ==
    IF kind = "list"
    THEN modbusWriteRead(h, sk, writeRegistersRequest(addr, <<value, value>>),
                         12, e)
    ELSE IF kind = "float"
    THEN modbusWriteRead(h, sk,
             <<0, 0, 0, 0, 0, 11, 255, 16, HiByte(addr), LoByte(addr),
               0, 2, 4, IF value = 0 THEN 0 ELSE 63,
               IF value = 0 THEN 0 ELSE 128, 0, 0>>,
             14, e)
    ELSE Only({IF m.exc # NoExc THEN m
               ELSE IF writeRegisterRequest(addr, value) # m.ret
               THEN [m EXCEPT !.exc = LJE_WriteReg]
               ELSE m :
               m \in {modbusWriteRead(h, sk,
                          writeRegisterRequest(addr, value), 12, e)}})

(***************************************************************************)
(* Python strings and struct.  A string is the sequence of its characters. *)
(***************************************************************************)
DigitChars == <<"0", "1", "2", "3", "4", "5", "6", "7", "8", "9">>

\* str(n) of an integer n >= 0
RECURSIVE Str(_)
Str(n) ==
    IF n < 10 THEN <<DigitChars[n + 1]>>
    ELSE Str(n \div 10) \o <<DigitChars[(n % 10) + 1]>>

\* list.reverse()
PyReverse(list) == [i \in 1..Len(list) |-> list[Len(list) + 1 - i]]

\* struct.unpack(">I", serialBytes)[0]; struct.error unless there are
\* exactly four bytes
UnpackBE(bytes) ==
    IF Len(bytes) # 4 THEN [exc |-> StructError, val |-> 0]
    ELSE [exc |-> NoExc,
          val |-> ((bytes[1] * 256 + bytes[2]) * 256 + bytes[3]) * 256
                      + bytes[4]]

\* the four bytes read with the most significant byte first
UnpackLE_bigEndian(bytes) == UnpackBE(bytes)

\* struct.unpack('<I', struct.pack("<BBBB", *bytes))[0]; struct.error
\* unless there are exactly four bytes
UnpackLE(bytes) ==
    IF Len(bytes) # 4 THEN [exc |-> StructError, val |-> 0]
    ELSE [exc |-> NoExc,
          val |-> ((bytes[4] * 256 + bytes[3]) * 256 + bytes[2]) * 256
                      + bytes[1]]

(***************************************************************************)
(* The decoders of the identification responses.  Each returns the         *)
(* exception raised (exc) and the identity read from the response.         *)
(***************************************************************************)
NoIdentity == [localID |-> 0, serialNumber |-> 0, ipAddress |-> << >>]

\* the serial number read from the MAC address without macAddress.reverse()
serialOfMac_unreversed(rcvDataBuff) ==
    UnpackBE(<<16>> \o PySlice(PySlice(rcvDataBuff, 28, 34), 3, 6))

\* macAddress = rcvDataBuff[28:34]; macAddress.reverse(); serialBytes =
\* chr(0x10) and the characters of macAddress[3:]; unpack(">I", serialBytes)
serialOfMac(rcvDataBuff) ==
    UnpackBE(<<16>> \o PySlice(PyReverse(PySlice(rcvDataBuff, 28, 34)),
                               3, 6))

\* "for j in range(13, 9, -1)": str(int(rcvDataBuff[j])) and "." are
\* appended, and ipAddress[0:-1] drops the last "."
RECURSIVE ipLoop(_, _)
ipLoop(rcvDataBuff, j) ==
    IF j <= 9 THEN << >>
    ELSE Str(Py(rcvDataBuff, j)) \o <<".">> \o ipLoop(rcvDataBuff, j - 1)

ipOfResponse(rcvDataBuff) ==
    IF Len(rcvDataBuff) < 14 THEN [exc |-> IndexError, val |-> << >>]
    ELSE Only({[exc |-> NoExc, val |-> SubSeq(ip, 1, Len(ip) - 1)] :
               ip \in {ipLoop(rcvDataBuff, 13)}})

\* _makeDeviceFromHandle, UE9: localID, then serialNumber, then ipAddress
makeUE9Identity(rcvDataBuff) ==
    IF Len(rcvDataBuff) < 9 THEN [exc |-> IndexError, id |-> NoIdentity]
    ELSE Only({IF sn.exc # NoExc THEN [exc |-> sn.exc, id |-> NoIdentity]
               ELSE Only({IF ip.exc # NoExc
                          THEN [exc |-> ip.exc, id |-> NoIdentity]
                          ELSE [exc |-> NoExc,
                                id  |-> [localID |->
                                             BitAnd(Py(rcvDataBuff, 8), 255),
                                         serialNumber |-> sn.val,
                                         ipAddress |-> ip.val]] :
                          ip \in {ipOfResponse(rcvDataBuff)}}) :
               sn \in {serialOfMac(rcvDataBuff)}})

\* __listAllUE9Unix (USB, and again for the broadcast answers): serial, then
\* ipAddress, then localID
listAllUE9Identity(rcvDataBuff) ==
    Only({IF sn.exc # NoExc THEN [exc |-> sn.exc, id |-> NoIdentity]
          ELSE Only({IF ip.exc # NoExc
                     THEN [exc |-> ip.exc, id |-> NoIdentity]
                     ELSE [exc |-> NoExc,
                           id  |-> [localID |->
                                        BitAnd(Py(rcvDataBuff, 8), 255),
                                    serialNumber |-> sn.val,
                                    ipAddress |-> ip.val]] :
                     ip \in {ipOfResponse(rcvDataBuff)}}) :
          sn \in {serialOfMac(rcvDataBuff)}})

\* openLabJack, Ethernet: serialNumber, then ipAddress, then localID
broadcastIdentity(rcvDataBuff) ==
    Only({IF sn.exc # NoExc THEN [exc |-> sn.exc, id |-> NoIdentity]
          ELSE Only({IF ip.exc # NoExc
                     THEN [exc |-> ip.exc, id |-> NoIdentity]
                     ELSE [exc |-> NoExc,
                           id  |-> [localID |->
                                        BitAnd(Py(rcvDataBuff, 8), 255),
                                    serialNumber |-> sn.val,
                                    ipAddress |-> ip.val]] :
                     ip \in {ipOfResponse(rcvDataBuff)}}) :
          sn \in {serialOfMac(rcvDataBuff)}})

\* _makeDeviceFromHandle, U3 and U6: localID = rcvDataBuff[21] & 0xff, then
\* the serial number of rcvDataBuff[15:19]; ipAddress = ""
makeU3Identity(rcvDataBuff) ==
    IF Len(rcvDataBuff) < 22 THEN [exc |-> IndexError, id |-> NoIdentity]
    ELSE Only({IF sn.exc # NoExc THEN [exc |-> sn.exc, id |-> NoIdentity]
               ELSE [exc |-> NoExc,
                     id  |-> [localID |-> BitAnd(Py(rcvDataBuff, 21), 255),
                              serialNumber |-> sn.val,
                              ipAddress |-> << >>]] :
               sn \in {UnpackLE(PySlice(rcvDataBuff, 15, 19))}})

\* __listAllU3Unix and __listAllU6Unix: the serial number first, then
\* localID; ipAddress = None
listAllU3Identity(rcvDataBuff) ==
    Only({IF sn.exc # NoExc THEN [exc |-> sn.exc, id |-> NoIdentity]
          ELSE IF Len(rcvDataBuff) < 22
          THEN [exc |-> IndexError, id |-> NoIdentity]
          ELSE [exc |-> NoExc,
                id  |-> [localID |-> BitAnd(Py(rcvDataBuff, 21), 255),
                         serialNumber |-> sn.val,
                         ipAddress |-> <<"None">>]] :
          sn \in {UnpackLE(PySlice(rcvDataBuff, 15, 19))}})

(***************************************************************************)
(* Opening and listing USB devices.                                        *)
(*                                                                         *)
(* The native library is asked for the device at index i + 1.  What it     *)
(* does with that device is the input o: o.open LJUSB_OpenDevice returns a *)
(* device pointer, o.w the outcome of the bulk write, o.data the bytes of  *)
(* the bulk read.  A pointer that is NULL is the handle "NULL" (the 0 of   *)
(* the restype c_int) or "None" (restype c_void_p).  A walk st over the    *)
(* devices keeps the indices it has open (st.open), its native calls       *)
(* (st.calls) and every response it decoded with the identity it read      *)
(* from it (st.seen).                                                      *)
(***************************************************************************)

\* "raise Exception" of a handle <= 0
PyException == "Exception"

NoWalk == [open |-> {}, calls |-> << >>, seen |-> << >>]

\* the value LJUSB_OpenDevice returns under the restype rt
OpenedHandle(o, rt) ==
    IF o.open THEN "USB" ELSE IF rt = "c_void_p" THEN "None" ELSE "NULL"

\* the identification command of _makeDeviceFromHandle
IdCommand(deviceType) ==
    IF deviceType = LJ_dtUE9
    THEN <<137, 120, 16, 1>> \o Zeros(34)
    ELSE IF deviceType = LJ_dtU3
    THEN <<11, 248, 10, 8>> \o Zeros(22)
    ELSE <<0, 248, 10, 8>> \o Zeros(22)

\* the bulk read of 38 bytes on the device of outcome o
IdRead(h, o) ==
    DeviceRead(h, NoSockets, 38, FALSE, FALSE,
               [err |-> FALSE, conn |-> FALSE, data |-> o.data])

\* device.close() on the device at index i
CloseCall(h, i) == Call("LJUSB_CloseDevice", h, << >>, i)

\* _makeDeviceFromHandle(handle, deviceType) on the open device at index i.
\* The UE9 branch closes the device on every exception of the write, the
\* read and the decoding; the U3 and U6 branches close it on a
\* LabJackException of the write and the read, and decode after the try.
\* open: the device is still open when the function returns or raises.
makeDeviceFromHandle(h, deviceType, i, o) ==
    Only({IF wr.exc # NoExc
          THEN [exc |-> wr.exc, id |-> NoIdentity, open |-> FALSE,
                calls |-> wr.calls \o <<CloseCall(h, i)>>, seen |-> << >>]
          ELSE Only({Only({[exc   |-> d.exc,
                            id    |-> d.id,
                            open  |-> d.exc = NoExc
                                          \/ deviceType # LJ_dtUE9,
                            calls |-> wr.calls \o rd.calls \o
                                          (IF d.exc # NoExc
                                              /\ deviceType = LJ_dtUE9
                                           THEN <<CloseCall(h, i)>>
                                           ELSE << >>),
                            seen  |-> IF d.exc = NoExc
                                      THEN <<[resp |-> rd.ret, id |-> d.id,
                                              by |-> "open"]>>
                                      ELSE << >>] :
                           d \in {IF deviceType = LJ_dtUE9
                                  THEN makeUE9Identity(rd.ret)
                                  ELSE makeU3Identity(rd.ret)}}) :
                     rd \in {IdRead(h, o)}}) :
          wr \in {DeviceWrite(h, IdCommand(deviceType), FALSE,
                              deviceType = LJ_dtU6, o.w)}})

\* the comparison of the identity with pAddress, an integer, a string or
\* None: None equals no local ID, serial number or address
Matches(id, pAddress) ==
    IF pAddress.kind = "none" THEN FALSE
    ELSE IF pAddress.kind = "int"
    THEN id.localID = pAddress.val \/ id.serialNumber = pAddress.val
    ELSE id.ipAddress = pAddress.val

\* Device(None): the attributes __init__ sets; -1 stands for None, and
\* localId, an attribute __init__ does not make, is -1 until it is made
NoSession ==
    [handle |-> "None", localID |-> -1, localId |-> -1,
     serialNumber |-> -1, ipAddress |-> << >>, devType |-> -1]

\* the assignments of Device.open after openLabJack returned d (r.ret[1]);
\* an exception of openLabJack leaves open before them
Device_open(self, devType, r) ==
    IF r.exc # NoExc THEN self
    ELSE [self EXCEPT !.handle = "USB",
                      !.localId = r.ret[1].localID,
                      !.serialNumber = r.ret[1].serialNumber,
                      !.ipAddress = IF devType = 9 THEN r.ret[1].ipAddress
                                    ELSE @]

\* Device.asDict()
asDict(self) ==
    [devType |-> self.devType, localID |-> self.localID,
     serialNumber |-> self.serialNumber, ipAddress |-> self.ipAddress]

\* openLabJack with devNumber or firstFound: one device is opened; every
\* exception, the one of a handle <= 0 included, becomes
\* LJE_LABJACK_NOT_FOUND.  raised is the exception that was caught.
openOne(deviceType, i, o) ==
    IF ~o.open
    THEN [exc |-> LJE_LABJACK_NOT_FOUND, raised |-> PyException,
          ret |-> << >>, idx |-> 0, open |-> {},
          calls |-> <<Call("LJUSB_OpenDevice", "None", << >>, i)>>,
          seen |-> << >>]
    ELSE Only({[exc    |-> IF m.exc # NoExc THEN LJE_LABJACK_NOT_FOUND
                           ELSE NoExc,
                raised |-> m.exc,
                ret    |-> IF m.exc = NoExc THEN <<m.id>> ELSE << >>,
                idx    |-> IF m.exc = NoExc THEN i ELSE 0,
                open   |-> IF m.open THEN {i} ELSE {},
                calls  |-> <<Call("LJUSB_OpenDevice", "USB", << >>, i)>>
                               \o m.calls,
                seen   |-> m.seen] :
               m \in {makeDeviceFromHandle("USB", deviceType, i, o)}})

\* openLabJack with firstFound = False: the loop over the devices from
\* index i on.  A device that does not open or is not identified is
\* skipped, one that does not match is closed, the first match is returned.
RECURSIVE openSearch(_, _, _, _, _)
openSearch(deviceType, pAddress, env, i, st) ==
    IF i > Len(env)
    THEN [exc |-> LJE_LABJACK_NOT_FOUND, raised |-> NoExc, ret |-> << >>,
          idx |-> 0, open |-> st.open, calls |-> st.calls,
          seen |-> st.seen]
    ELSE IF ~env[i].open
    THEN openSearch(deviceType, pAddress, env, i + 1,
             [st EXCEPT !.calls = @ \o
                 <<Call("LJUSB_OpenDevice", "None", << >>, i)>>])
    ELSE Only({IF m.exc # NoExc
               THEN openSearch(deviceType, pAddress, env, i + 1,
                        [open  |-> st.open \cup (IF m.open THEN {i}
                                                 ELSE {}),
                         calls |-> st.calls \o
                             <<Call("LJUSB_OpenDevice", "USB", << >>, i)>>
                             \o m.calls,
                         seen  |-> st.seen \o m.seen])
               ELSE IF Matches(m.id, pAddress)
               THEN [exc |-> NoExc, raised |-> NoExc, ret |-> <<m.id>>,
                     idx |-> i, open |-> st.open \cup {i},
                     calls |-> st.calls \o
                         <<Call("LJUSB_OpenDevice", "USB", << >>, i)>>
                         \o m.calls,
                     seen |-> st.seen \o m.seen]
               ELSE openSearch(deviceType, pAddress, env, i + 1,
                        [open  |-> st.open,
                         calls |-> st.calls \o
                             <<Call("LJUSB_OpenDevice", "USB", << >>, i)>>
                             \o m.calls \o <<CloseCall("USB", i)>>,
                         seen  |-> st.seen \o m.seen]) :
               m \in {makeDeviceFromHandle("USB", deviceType, i, env[i])}})

\* openLabJack(deviceType, LJ_ctUSB, firstFound, pAddress, devNumber) on
\* posix; devNumber = 0 stands for None.  The outcome of an index the
\* library has no device for is a failed open.
NoDevice == [open |-> FALSE, w |-> "err", data |-> << >>]

openLabJackUSB(deviceType, firstFound, pAddress, devNumber, env) ==
    IF devNumber # 0
    THEN openOne(deviceType, devNumber,
                 IF devNumber <= Len(env) THEN env[devNumber] ELSE NoDevice)
    ELSE IF firstFound
    THEN openOne(deviceType, 1, IF Len(env) >= 1 THEN env[1] ELSE NoDevice)
    ELSE openSearch(deviceType, pAddress, env, 1, NoWalk)

\* deviceList[serial] = dict(...): the entry of the same serial number is
\* replaced
DictPut(deviceList, id) ==
    {x \in deviceList : x.serialNumber # id.serialNumber} \cup {id}

\* the command of the listAll functions: setChecksum is applied by
\* __listAllUE9Unix and __listAllU3Unix before the write, and by the write
\* of all three
ListCommandUE9 == setChecksum(<<0, 120, 16, 1>> \o Zeros(34)).buf

ListCommandU3 == setChecksum(<<0, 248, 10, 8>> \o Zeros(22)).buf

ListCommand(deviceType) ==
    IF deviceType = LJ_dtUE9 THEN ListCommandUE9
    ELSE IF deviceType = LJ_dtU3 THEN ListCommandU3
    ELSE <<0, 248, 10, 8>> \o Zeros(22)

\* __listAllU6Unix reads rcvDataBuff[37] after the identity
listAllU6Identity(rcvDataBuff) ==
    Only({IF d.exc = NoExc /\ Len(rcvDataBuff) < 38
          THEN [exc |-> IndexError, id |-> NoIdentity]
          ELSE d :
          d \in {listAllU3Identity(rcvDataBuff)}})

\* the body of the loop of a listAll function for the device at index i,
\* handle h.  next: the loop goes on ("continue" or the end of the body);
\* otherwise exc left the function.
listOne(deviceType, h, i, o, st) ==
    Only({IF wr.exc # NoExc
          THEN \* UE9: except Exception, close, continue.  U3, U6: except
               \* LabJackException, close, raise "Error in listAll"
               [next |-> deviceType = LJ_dtUE9,
                exc  |-> IF deviceType = LJ_dtUE9 THEN NoExc
                         ELSE IF deviceType = LJ_dtU3 THEN LJE_ListAllU3
                         ELSE LJE_ListAllU6,
                raised |-> wr.exc,
                list |-> st.list,
                open |-> st.open \ {i},
                calls |-> st.calls \o wr.calls \o <<CloseCall(h, i)>>,
                seen |-> st.seen]
          ELSE Only({Only({IF d.exc = NoExc
                           THEN [next |-> TRUE, exc |-> NoExc,
                                 raised |-> st.raised,
                                 list |-> DictPut(st.list, d.id),
                                 open |-> st.open \ {i},
                                 calls |-> st.calls \o wr.calls \o rd.calls
                                               \o <<CloseCall(h, i)>>,
                                 seen |-> st.seen \o
                                     <<[resp |-> rd.ret, id |-> d.id,
                                        by |-> "listAll"]>>]
                           ELSE IF deviceType = LJ_dtUE9
                           THEN [next |-> TRUE, exc |-> NoExc,
                                 raised |-> d.exc,
                                 list |-> st.list,
                                 open |-> st.open \ {i},
                                 calls |-> st.calls \o wr.calls \o rd.calls
                                               \o <<CloseCall(h, i)>>,
                                 seen |-> st.seen]
                           ELSE [next |-> FALSE, exc |-> d.exc,
                                 raised |-> d.exc,
                                 list |-> st.list,
                                 open |-> st.open,
                                 calls |-> st.calls \o wr.calls \o rd.calls,
                                 seen |-> st.seen] :
                           d \in {IF deviceType = LJ_dtUE9
                                  THEN listAllUE9Identity(rd.ret)
                                  ELSE IF deviceType = LJ_dtU3
                                  THEN listAllU3Identity(rd.ret)
                                  ELSE listAllU6Identity(rd.ret)}}) :
                     rd \in {IdRead(h, o)}}) :
          wr \in {DeviceWrite(h, ListCommand(deviceType), FALSE, TRUE,
                              o.w)}})

\* __listAllUE9Unix(LJ_ctUSB), __listAllU3Unix, __listAllU6Unix: the loop
\* over the devices from index i on.  The U3 and U6 functions skip a handle
\* equal to 0; the UE9 function does not look at the handle.
RECURSIVE listAllUSB(_, _, _, _, _)
listAllUSB(deviceType, rt, env, i, st) ==
    IF i > Len(env) THEN [st EXCEPT !.next = FALSE]
    ELSE Only({IF deviceType # LJ_dtUE9 /\ h = "NULL"
               THEN listAllUSB(deviceType, rt, env, i + 1,
                        [st EXCEPT !.calls = @ \o
                            <<Call("LJUSB_OpenDevice", h, << >>, i)>>])
               ELSE Only({IF b.next
                          THEN listAllUSB(deviceType, rt, env, i + 1, b)
                          ELSE b :
                          b \in {listOne(deviceType, h, i, env[i],
                                     [st EXCEPT
                                         !.open = IF h = "USB"
                                                  THEN @ \cup {i} ELSE @,
                                         !.calls = @ \o
                                             <<Call("LJUSB_OpenDevice", h,
                                                    << >>, i)>>])}}) :
               h \in {OpenedHandle(env[i], rt)}})

\* the walk of a listAll function before its loop
NoList ==
    [next |-> TRUE, exc |-> NoExc, raised |-> NoExc, list |-> {},
     open |-> {}, calls |-> << >>, seen |-> << >>]

(***************************************************************************)
(* DoubleToStringAddress and StringToDoubleAddress.  A number is kept as   *)
(* two limbs of 16 bits, n.hi * 65536 + n.lo, since an address goes up to  *)
(* 2^32 - 1; Python's integers do not overflow, and n.hi is not bounded.   *)
(***************************************************************************)
LJE_IPFormat == "LabJackException: IP address not correctly formatted"

ValueError == "ValueError"

\* the index of the first c in s at or after position i, 0 when there is
\* none
RECURSIVE Find(_, _, _)
Find(s, c, i) ==
    IF i > Len(s) THEN 0
    ELSE IF s[i] = c THEN i
    ELSE Find(s, c, i + 1)

\* s.split(c): the list of the parts of s between the occurrences of c
RECURSIVE Split(_, _)
Split(s, c) ==
    Only({IF k = 0 THEN <<s>>
          ELSE <<SubSeq(s, 1, k - 1)>> \o Split(SubSeq(s, k + 1, Len(s)), c) :
          k \in {Find(s, c, 1)}})

\* the value of a decimal digit, -1 for another character
DigitValue(c) ==
    IF \E d \in 1..10 : DigitChars[d] = c
    THEN (CHOOSE d \in 1..10 : DigitChars[d] = c) - 1
    ELSE -1

\* int(part) of a string of decimal digits; ValueError on the empty string
\* and on a character that is not a digit
RECURSIVE IntLoop(_, _, _)
IntLoop(part, i, acc) ==
    IF i > Len(part) THEN [exc |-> NoExc, val |-> acc]
    ELSE IF DigitValue(part[i]) < 0 THEN [exc |-> ValueError, val |-> 0]
    ELSE IntLoop(part, i + 1, acc * 10 + DigitValue(part[i]))

PyInt(part) ==
    IF part = << >> THEN [exc |-> ValueError, val |-> 0]
    ELSE IntLoop(part, 1, 0)

\* "%i.%i.%i.%i" with the octets in the order of the low byte first
DoubleToStringAddress_lowFirst(number) ==
    Str(BitAnd(number.lo, 255)) \o <<".">>
        \o Str(BitAnd(ShiftR(number.lo, 8), 255)) \o <<".">>
        \o Str(BitAnd(number.hi, 255)) \o <<".">>
        \o Str(BitAnd(ShiftR(number.hi, 8), 255))

\* "%i.%i.%i.%i" % (number >> 24 & 0xFF, number >> 16 & 0xFF,
\*                  number >> 8 & 0xFF, number & 0xFF)
DoubleToStringAddress(number) ==
    Str(BitAnd(ShiftR(number.hi, 8), 255)) \o <<".">>
        \o Str(BitAnd(number.hi, 255)) \o <<".">>
        \o Str(BitAnd(ShiftR(number.lo, 8), 255)) \o <<".">>
        \o Str(BitAnd(number.lo, 255))

\* (a << 24) + (b << 16) + (c << 8) + d in limbs
ShiftSum(a, b, c, d) ==
    [hi |-> a * 256 + b + ((c * 256 + d) \div 65536),
     lo |-> (c * 256 + d) % 65536]

\* StringToDoubleAddress(pString)
StringToDoubleAddress(pString) ==
    Only({IF Len(parts) # 4
          THEN [exc |-> LJE_IPFormat, val |-> [hi |-> 0, lo |-> 0]]
          ELSE IF \E i \in 1..4 : PyInt(parts[i]).exc # NoExc
          THEN [exc |-> LJE_IPFormat, val |-> [hi |-> 0, lo |-> 0]]
          ELSE [exc |-> NoExc,
                val |-> ShiftSum(PyInt(parts[1]).val, PyInt(parts[2]).val,
                                 PyInt(parts[3]).val, PyInt(parts[4]).val)] :
          parts \in {Split(pString, ".")}})

(***************************************************************************)
(* State.                                                                  *)
(*   frame    the caller's byte list handed to the checksum functions      *)
(*   cs       the last checksum call: its name, the call before it, the    *)
(*            list before the call, the exception and the value returned   *)
(*   handle   Device.handle: "None", "USB" or "TCP"                        *)
(*   devType  Device.devType                                               *)
(*   usbDev   the device behind the USB handle: "open", "closed", or       *)
(*            "absent" for a TCP session                                   *)
(*   sock     the sockets of the UE9TCPHandle: "open", "closed",           *)
(*            "unconnected", or "absent" for a USB session                 *)
(*   last     the last Device method call: its name, Device.handle before  *)
(*            it, the exception raised, the values returned, the calls it  *)
(*            made on the transport, the caller's list before (arg) and    *)
(*            after (buf) the call, and the exception raised inside the    *)
(*            method (raised), the outcomes of its transport calls (env)   *)
(*            and the arguments modbus, checksum or stream (flags)         *)
(*   module   the import of the module: "importing", "ready" or "failed"   *)
(*   restype  the restype of staticLib.LJUSB_OpenDevice: "c_int" until     *)
(*            openLabJack sets "c_void_p"                                  *)
(*   bus      the devices the native library counts (LJUSB_GetDevCount),   *)
(*            each with what it does when it is opened, written and read   *)
(*   disc     the last openLabJack or listAll over USB on these devices:   *)
(*            its arguments, the exception raised (exc) and the one caught *)
(*            before it (raised), the identity returned (ret) or the       *)
(*            identities listed (list), the indices left open (open), the  *)
(*            native calls and the responses decoded (seen)                *)
(*   net      the last openLabJack or listAll over Ethernet: the phase of  *)
(*            its receive loop, the ticks since the broadcast (elapsed)    *)
(*            and since recv was called (idle), and what it collected      *)
(*   conv     the last call of DoubleToStringAddress or                    *)
(*            StringToDoubleAddress: the number (n) and the string (s)     *)
(***************************************************************************)
VARIABLES frame, cs, handle, devType, usbDev, sock, last

VARIABLES module, restype, bus, disc, net, conv, thr

csVars == <<frame, cs>>

devVars == <<handle, devType, usbDev, sock, last>>

discVars == <<module, restype, bus, disc, net, conv, thr>>

vars == <<frame, cs, handle, devType, usbDev, sock, last,
          module, restype, bus, disc, net, conv, thr>>

\* the outcome of a read that is not made
UnusedRead == [err |-> TRUE, conn |-> FALSE, data |-> << >>]

\* the outcomes of the transport calls of a method that makes none
NoEnv == [w1 |-> "err", r1 |-> UnusedRead, w2 |-> "err", r2 |-> UnusedRead]

NoCall ==
    [op |-> "init", pre |-> "None", exc |-> NoExc, ok |-> FALSE,
     ret |-> << >>, kind |-> "list", calls |-> << >>, arg |-> << >>,
     buf |-> << >>, cmd |-> << >>, raw |-> << >>, checked |-> FALSE,
     raised |-> NoExc, env |-> NoEnv, flags |-> << >>]

\* LJUSB_GetDevCount returns 0
NoBus == << >>

\* no openLabJack or listAll over USB has been called
NoDisc ==
    [op |-> "init", family |-> LJ_dtU3, mode |-> "none",
     pAddress |-> [kind |-> "int", val |-> 0],
     exc |-> NoExc, raised |-> NoExc, ret |-> << >>, list |-> {},
     idx |-> 0, open |-> {}, calls |-> << >>, seen |-> << >>,
     dev |-> NoSession]

\* no broadcast for a UE9 has been sent
NoNet ==
    [phase |-> "idle", op |-> "init",
     pAddress |-> [kind |-> "int", val |-> 0], elapsed |-> 0, idle |-> 0,
     exc |-> NoExc, raised |-> NoExc, ret |-> << >>, list |-> {},
     seen |-> << >>, firstFound |-> FALSE]

\* the callers of one session: none has called, and no response waits
Callers == {"A", "B"}

NoThreads ==
    [pc   |-> [t \in Callers |-> "idle"],
     cmd  |-> [t \in Callers |-> << >>],
     res  |-> [t \in Callers |-> << >>],
     exc  |-> [t \in Callers |-> NoExc],
     got  |-> [t \in Callers |-> "none"],
     ans  |-> [t \in Callers |-> << >>],
     pipe |-> << >>]

\* no address has been converted
NoConv == [op |-> "init", s |-> << >>, n |-> [hi |-> 0, lo |-> 0],
           exc |-> NoExc]

\* the command of the docstring of setChecksum
SampleCommand == <<0, 248, 3, 11, 0, 0, 0, 0, 0, 0, 0, 0>>

Frames ==
    UNION {[1..n -> ByteVals] : n \in 0..MaxLen} \cup {SampleCommand}

InitChecksum ==
    /\ frame \in Frames
    /\ cs = [op |-> "init", prevOp |-> "init", pre |-> frame,
             exc |-> NoExc, ret |-> FALSE]
    /\ handle = "None"
    /\ devType = LJ_dtU3
    /\ usbDev = "absent"
    /\ sock = NoSockets
    /\ last = NoCall
    /\ module = "ready"
    /\ restype = "c_int"
    /\ bus = NoBus
    /\ disc = NoDisc
    /\ net = NoNet
    /\ thr = NoThreads
    /\ conv = NoConv

CallSetChecksum ==
    \E r \in {setChecksum(frame)} :
        /\ frame' = r.buf
        /\ cs' = [op |-> "setChecksum", prevOp |-> cs.op, pre |-> frame,
                  exc |-> r.exc, ret |-> FALSE]
        /\ UNCHANGED <<devVars, discVars>>

CallVerifyChecksum ==
    \E r \in {verifyChecksum(frame)} :
        /\ frame' = r.buf
        /\ cs' = [op |-> "verifyChecksum", prevOp |-> cs.op, pre |-> frame,
                  exc |-> r.exc, ret |-> r.ret]
        /\ UNCHANGED <<devVars, discVars>>

NextChecksum == CallSetChecksum \/ CallVerifyChecksum

SpecChecksum == InitChecksum /\ [][NextChecksum]_vars

(***************************************************************************)
(* The Device session (specification Spec).  A session starts as           *)
(* openLabJack returns it: a USB handle of a UE9, U3 or U6, or the         *)
(* UE9TCPHandle of a UE9 with its three sockets connected.                 *)
(***************************************************************************)
Init ==
    /\ frame = << >>
    /\ cs = [op |-> "init", prevOp |-> "init", pre |-> << >>,
             exc |-> NoExc, ret |-> FALSE]
    /\ \/ /\ handle = "USB"
          /\ devType \in {LJ_dtUE9, LJ_dtU3, LJ_dtU6}
          /\ usbDev = "open"
          /\ sock = NoSockets
       \/ /\ handle = "TCP"
          /\ devType = LJ_dtUE9
          /\ usbDev = "absent"
          /\ sock = OpenSockets
    /\ last = NoCall
    /\ module = "ready"
    /\ restype = "c_int"
    /\ bus = NoBus
    /\ disc = NoDisc
    /\ net = NoNet
    /\ thr = NoThreads
    /\ conv = NoConv

\* the lists a caller hands to write and _writeRead
Commands == {<<112, 112>>, <<0, 248, 1, 42, 0, 0, 0, 0>>}

\* a response of len bytes: byte 0, byte 1 and byte 6 as given, zero
\* elsewhere
Response(len, b0, b1, b6) ==
    [i \in 1..len |->
        IF i = 1 THEN b0 ELSE IF i = 2 THEN b1 ELSE IF i = 7 THEN b6 ELSE 0]

\* responses of every length that _checkCommandBytes tells apart, up to the
\* length asked for
Responses(maxLen) ==
    {Response(len, b0, b1, b6) :
        len \in {0, 1, 2, 5, 7, maxLen}, b0 \in {0, 184, 248},
        b1 \in {0, 184, 248}, b6 \in {0, 184}}

\* a response that passes every check of _checkCommandBytes for the command
\* bytes <<248>>, one with a wrong checksum, the device's bad-checksum
\* answer, and a read that delivered nothing
FewResponses(maxLen) ==
    {Response(maxLen, 248, 248, 0), Response(maxLen, 0, 248, 0),
     <<184, 184>>, << >>}

\* the outcomes of one read whose data comes from pool
ReadOutcomes(pool) ==
    {[err |-> FALSE, conn |-> FALSE, data |-> d] : d \in pool}
        \cup {[err |-> TRUE, conn |-> c, data |-> << >>] : c \in BOOLEAN}

\* The outcomes of the transport calls of a method that writes and reads
\* at most twice.  The second cycle runs only after a first read that
\* raised LabJackException, which takes a failed recv and a successful
\* reconnect; no read follows a write that raised.  The outcomes of the
\* calls that are not made are fixed.
Cycles(pool) ==
    {e \in [w1 : WriteOutcomes, r1 : ReadOutcomes(pool),
            w2 : WriteOutcomes, r2 : ReadOutcomes(pool)] :
        /\ e.w1 = "err" => e.r1 = UnusedRead
        /\ (e.w1 = "err" \/ ~(e.r1.err /\ e.r1.conn))
               => (e.w2 = "err" /\ e.r2 = UnusedRead)
        /\ e.w2 = "err" => e.r2 = UnusedRead}

Lengths(n) == {Zeros(n), Zeros(n - 1), << >>}

Write ==
    \E writeBuffer \in Commands, modbus \in BOOLEAN, checksum \in BOOLEAN,
       w \in WriteOutcomes :
        \E r \in {DeviceWrite(handle, writeBuffer, modbus, checksum, w)} :
            /\ last' = [NoCall EXCEPT !.op = "write", !.pre = handle,
                            !.exc = r.exc, !.calls = r.calls,
                            !.arg = writeBuffer, !.buf = r.buf,
                            !.env = [NoEnv EXCEPT !.w1 = w],
                            !.flags = <<modbus, checksum>>]
            /\ UNCHANGED <<csVars, discVars, handle, devType, usbDev, sock>>

Read ==
    \E stream \in BOOLEAN, modbus \in BOOLEAN,
       r \in ReadOutcomes(FewResponses(MaxReadLen)) :
        \E rd \in {DeviceRead(handle, sock, MaxReadLen, stream, modbus, r)} :
            /\ last' = [NoCall EXCEPT !.op = "read", !.pre = handle,
                            !.exc = rd.exc, !.ret = rd.ret,
                            !.kind = rd.kind, !.calls = rd.calls,
                            !.env = [NoEnv EXCEPT !.r1 = r],
                            !.flags = <<stream, modbus>>]
            /\ sock' = rd.sk
            /\ UNCHANGED <<csVars, discVars, handle, devType, usbDev>>

\* _writeRead with the read data drawn from pool and checkBytes from
\* checks; a write that raised is followed by no read
WriteReadFrom(pool, checks) ==
    \E commandBytes \in {<<0>>, <<248>>}, checkBytes \in checks,
       w \in WriteOutcomes, r \in ReadOutcomes(pool) :
        /\ w = "err" => r = UnusedRead
        /\ LET command == <<0, 248, 1, 42, 0, 0, 0, 0>>
           IN  \E x \in {writeRead(handle, sock, command, MaxReadLen,
                                   commandBytes, checkBytes, TRUE, w, r)} :
                /\ last' = [NoCall EXCEPT !.op = "_writeRead",
                                !.pre = handle, !.exc = x.exc,
                                !.ret = x.ret, !.kind = x.kind,
                                !.calls = x.calls, !.arg = command,
                                !.buf = x.buf, !.cmd = commandBytes,
                                !.raw = x.raw, !.checked = x.checked,
                                !.env = [NoEnv EXCEPT !.w1 = w, !.r1 = r]]
                /\ sock' = x.sk
                /\ UNCHANGED <<csVars, discVars, handle, devType, usbDev>>

WriteRead == WriteReadFrom(FewResponses(MaxReadLen), BOOLEAN)

WriteReadAny == WriteReadFrom(Responses(MaxReadLen), {TRUE})

Ping ==
    \E e \in Cycles(Lengths(IF devType = LJ_dtUE9 THEN 2 ELSE 40)) :
        \E x \in {ping(handle, sock, devType, e)} :
            /\ last' = [NoCall EXCEPT !.op = "ping", !.pre = handle,
                            !.exc = x.exc, !.ok = x.ok, !.calls = x.calls,
                            !.raised = x.raised, !.env = e]
            /\ sock' = x.sk
            /\ UNCHANGED <<csVars, discVars, handle, devType, usbDev>>

\* reset giving up the handle when it fails
Reset_closing ==
    \E e \in Cycles(Lengths(4)) :
        \E x \in {reset(handle, sock, e)} :
            /\ last' = [NoCall EXCEPT !.op = "reset", !.pre = handle,
                            !.exc = x.exc, !.calls = x.calls, !.env = e]
            /\ sock' = x.sk
            /\ handle' = IF x.exc # NoExc THEN "None" ELSE handle
            /\ UNCHANGED <<csVars, discVars, devType, usbDev>>

Reset ==
    \E e \in Cycles(Lengths(4)) :
        \E x \in {reset(handle, sock, e)} :
            /\ last' = [NoCall EXCEPT !.op = "reset", !.pre = handle,
                            !.exc = x.exc, !.calls = x.calls, !.env = e]
            /\ sock' = x.sk
            /\ UNCHANGED <<csVars, discVars, handle, devType, usbDev>>

Close ==
    \E c \in {"none", "data", "stream", "modbus"} :
        \E x \in {close(handle, sock, usbDev, c)} :
            /\ handle' = x.h
            /\ sock' = x.sk
            /\ usbDev' = x.usb
            /\ last' = [NoCall EXCEPT !.op = "close", !.pre = handle,
                            !.calls = x.calls,
                            !.raised = IF handle = "TCP" THEN c ELSE NoExc]
            /\ UNCHANGED <<csVars, discVars, devType>>

\* the response to a read of numReg registers: the 9-byte header and the
\* register bytes 1, 2, ...
ReadResponse(numReg) ==
    <<0, 0, 0, 0, 0, 3 + 2 * numReg, 255, 3, 2 * numReg>>
        \o [i \in 1..(2 * numReg) |-> i]

ReadRegister ==
    \E addr \in {5000}, numReg \in {1, 2} :
        \E e \in Cycles({ReadResponse(numReg), <<184, 184>>}) :
            \E x \in {readRegister(handle, sock, addr, numReg, e)} :
                /\ last' = [NoCall EXCEPT !.op = "readRegister",
                                !.pre = handle, !.exc = x.exc,
                                !.ret = x.ret, !.calls = x.calls,
                                !.buf = x.buf, !.env = e,
                                !.arg = <<addr, numReg>>]
                /\ sock' = x.sk
                /\ UNCHANGED <<csVars, discVars, handle, devType, usbDev>>

WriteRegister ==
    \E addr \in {5000}, value \in {1},
       kind \in {"single", "float", "list"} :
        \E e \in Cycles({writeRegisterRequest(addr, value), Zeros(12)}) :
            \E x \in {writeRegister(handle, sock, addr, value, kind, e)} :
                /\ last' = [NoCall EXCEPT !.op = "writeRegister",
                                !.pre = handle, !.exc = x.exc,
                                !.ret = x.ret, !.calls = x.calls,
                                !.buf = x.buf, !.env = e,
                                !.arg = <<addr, value>>,
                                !.flags = <<kind>>]
                /\ sock' = x.sk
                /\ UNCHANGED <<csVars, discVars, handle, devType, usbDev>>

Next ==
    \/ Write
    \/ Read
    \/ WriteRead
    \/ Ping
    \/ Reset
    \/ Close
    \/ ReadRegister
    \/ WriteRegister

Spec == Init /\ [][Next]_vars

\* response validation on every response of Responses
NextValidate == WriteReadAny

SpecValidate == Init /\ [][NextValidate]_vars

(***************************************************************************)
(* Specification SpecDiscovery: openLabJack and listAll over USB on posix. *)
(* Devices are attached and detached while the process holds none open;    *)
(* a call is made while the process holds none open.                       *)
(***************************************************************************)
Families == {LJ_dtUE9, LJ_dtU3, LJ_dtU6}

\* an identification response of 38 bytes, all of them different
IdResponse(k) == [i \in 1..38 |-> ((i - 1) * k + 7) % 256]

\* a response whose bytes 15..18, the serial number of a U3, hold 70, the
\* local ID a U3 reads from IdResponse(3)
TwinResponse ==
    [IdResponse(5) EXCEPT ![16] = 70, ![17] = 0, ![18] = 0, ![19] = 0]

\* a response cut after 20 bytes
ShortResponse == SubSeq(IdResponse(3), 1, 20)

\* what a device does: it does not open; it opens and refuses the write;
\* it answers with an identification response; it answers with a short one
DeviceOutcomes ==
    {NoDevice,
     [open |-> TRUE, w |-> "err", data |-> << >>],
     [open |-> TRUE, w |-> "all", data |-> IdResponse(3)],
     [open |-> TRUE, w |-> "all", data |-> TwinResponse],
     [open |-> TRUE, w |-> "all", data |-> ShortResponse]}

\* values of pAddress: the local ID a UE9 and a U3 read from IdResponse(3),
\* the serial number a UE9 reads from TwinResponse, and the empty string
Addresses ==
    {[kind |-> "int", val |-> makeUE9Identity(IdResponse(3)).id.localID],
     [kind |-> "int", val |-> makeU3Identity(IdResponse(3)).id.localID],
     [kind |-> "int",
      val  |-> makeUE9Identity(TwinResponse).id.serialNumber],
     [kind |-> "str", val |-> << >>]}

NoAddress == [kind |-> "int", val |-> 0]

\* the arguments firstFound, pAddress and devNumber of openLabJack
OpenModes ==
    {[name |-> "devNumber", firstFound |-> TRUE, pAddress |-> NoAddress,
      devNumber |-> n] : n \in 1..MaxDevices}
    \cup {[name |-> "firstFound", firstFound |-> TRUE,
           pAddress |-> NoAddress, devNumber |-> 0]}
    \cup {[name |-> "search", firstFound |-> FALSE, pAddress |-> p,
           devNumber |-> 0] : p \in Addresses}

InitDiscovery ==
    /\ frame = << >>
    /\ cs = [op |-> "init", prevOp |-> "init", pre |-> << >>,
             exc |-> NoExc, ret |-> FALSE]
    /\ handle = "None"
    /\ devType = LJ_dtU3
    /\ usbDev = "absent"
    /\ sock = NoSockets
    /\ last = NoCall
    /\ module = "ready"
    /\ restype = "c_int"
    /\ bus = NoBus
    /\ disc = NoDisc
    /\ net = NoNet
    /\ thr = NoThreads
    /\ conv = NoConv

\* a device is plugged in: the library counts one more
Attach ==
    /\ disc.open = {}
    /\ Len(bus) < MaxDevices
    /\ \E o \in DeviceOutcomes : bus' = Append(bus, o)
    /\ disc' = NoDisc
    /\ UNCHANGED <<csVars, thr, devVars, module, restype, net, conv>>

\* the last device is unplugged
Detach ==
    /\ disc.open = {}
    /\ Len(bus) > 0
    /\ bus' = SubSeq(bus, 1, Len(bus) - 1)
    /\ disc' = NoDisc
    /\ UNCHANGED <<csVars, thr, devVars, module, restype, net, conv>>

OpenLabJackUSB ==
    /\ module = "ready"
    /\ disc.open = {}
    /\ \E deviceType \in Families, mode \in OpenModes :
        \E r \in {openLabJackUSB(deviceType, mode.firstFound, mode.pAddress,
                                 mode.devNumber, bus)} :
            disc' = [op |-> "openLabJack", family |-> deviceType,
                     mode |-> mode.name, pAddress |-> mode.pAddress,
                     exc |-> r.exc, raised |-> r.raised, ret |-> r.ret,
                     list |-> {}, idx |-> r.idx, open |-> r.open,
                     calls |-> r.calls, seen |-> r.seen,
                     dev |-> NoSession]
    /\ restype' = "c_void_p"
    /\ UNCHANGED <<csVars, thr, devVars, module, bus, net, conv>>

\* the arguments of Device.open: firstFound = True, or firstFound = False
\* and localId the local ID a U3 reads from IdResponse(3)
DeviceOpenModes ==
    {mode \in OpenModes :
        \/ mode.name = "firstFound"
        \/ /\ mode.name = "search"
           /\ mode.pAddress =
                  [kind |-> "int",
                   val  |-> makeU3Identity(IdResponse(3)).id.localID]}

\* Device(None).open(devType, firstFound, localId, devNumber, ipAddress)
\* over USB: the branch is the one openLabJack takes with the same
\* arguments, then the attributes are set from the device it returned
DeviceOpen ==
    /\ module = "ready"
    /\ disc.open = {}
    /\ \E deviceType \in Families, mode \in DeviceOpenModes :
        \E r \in {openLabJackUSB(deviceType, mode.firstFound, mode.pAddress,
                                 mode.devNumber, bus)} :
            disc' = [op |-> "Device.open", family |-> deviceType,
                     mode |-> mode.name, pAddress |-> mode.pAddress,
                     exc |-> r.exc, raised |-> r.raised, ret |-> r.ret,
                     list |-> {}, idx |-> r.idx, open |-> r.open,
                     calls |-> r.calls, seen |-> r.seen,
                     dev |-> Device_open(NoSession, deviceType, r)]
    /\ restype' = "c_void_p"
    /\ UNCHANGED <<csVars, thr, devVars, module, bus, net, conv>>

ListAllUSB ==
    /\ module = "ready"
    /\ disc.open = {}
    /\ \E deviceType \in Families :
        \E r \in {listAllUSB(deviceType, restype, bus, 1, NoList)} :
            disc' = [op |-> "listAll", family |-> deviceType,
                     mode |-> "none", pAddress |-> NoAddress,
                     exc |-> r.exc, raised |-> r.raised, ret |-> << >>,
                     list |-> r.list, idx |-> 0, open |-> r.open,
                     calls |-> r.calls, seen |-> r.seen,
                     dev |-> NoSession]
    /\ UNCHANGED <<csVars, thr, devVars, module, restype, bus, net, conv>>

\* Device.close() on the device openLabJack returned, or on the session
\* Device.open bound to it
CloseDevice ==
    /\ disc.op \in {"openLabJack", "Device.open"}
    /\ disc.exc = NoExc
    /\ disc.idx \in disc.open
    /\ \E c \in {close("USB", NoSockets, "open", "none")} :
        disc' = [disc EXCEPT !.op = "close", !.open = @ \ {disc.idx},
                             !.calls = c.calls, !.dev.handle = "None"]
    /\ UNCHANGED <<csVars, thr, devVars, module, restype, bus, net, conv>>

NextDiscovery ==
    \/ Attach
    \/ Detach
    \/ OpenLabJackUSB
    \/ DeviceOpen
    \/ ListAllUSB
    \/ CloseDevice

SpecDiscovery == InitDiscovery /\ [][NextDiscovery]_vars

(***************************************************************************)
(* Specification SpecNetwork: the import of the module, then openLabJack   *)
(* and listAll for a UE9 over Ethernet.  The receive loop is followed one  *)
(* step at a time: a datagram arrives while recv waits (Recv), the clock   *)
(* ticks (Tick), or recv has waited for the whole socket timeout and       *)
(* raises socket.timeout (Timeout).  A broadcast that was sent is          *)
(* followed; every recv call waits anew.                                   *)
(***************************************************************************)
BROADCAST_SOCKET_TIMEOUT == 1

\* s.settimeout(BROADCAST_SOCKET_TIMEOUT), in ticks
RecvTimeout == BROADCAST_SOCKET_TIMEOUT * TicksPerSecond

SocketTimeout == "socket.timeout"

\* the answer of a UE9 to the broadcast: bytes of IdResponse(k) under the
\* checksums of an extended command
Answer(k) == setChecksum([IdResponse(k) EXCEPT ![2] = 120]).buf

\* datagrams on the port: two answers, an answer with a wrong checksum8,
\* and a datagram of three bytes
ShortAnswer == setChecksum([ShortResponse EXCEPT ![2] = 120]).buf

\* what recv returns: two answers of UE9s, an answer whose checksum is
\* wrong, an answer cut after 20 bytes whose checksum is right, and a
\* datagram of three bytes
Datagrams ==
    {Answer(3), Answer(5),
     [Answer(7) EXCEPT ![1] = (@ + 1) % 256],
     ShortAnswer,
     <<34, 120, 0>>}

\* values of pAddress: the local ID of Answer(3), the IP address of
\* Answer(5), and a local ID no answer has
\* pAddress = None, the default of openLabJack and what Device.open
\* passes with firstFound = True
NoneAddress == [kind |-> "none", val |-> 0]

NetAddresses ==
    {[kind |-> "int", val |-> broadcastIdentity(Answer(3)).id.localID],
     [kind |-> "str", val |-> broadcastIdentity(Answer(5)).id.ipAddress],
     [kind |-> "int", val |-> 0]}

InitNetwork ==
    /\ frame = << >>
    /\ cs = [op |-> "init", prevOp |-> "init", pre |-> << >>,
             exc |-> NoExc, ret |-> FALSE]
    /\ handle = "None"
    /\ devType = LJ_dtUE9
    /\ usbDev = "absent"
    /\ sock = NoSockets
    /\ last = NoCall
    /\ module = "importing"
    /\ restype = "c_int"
    /\ bus = NoBus
    /\ disc = NoDisc
    /\ net = NoNet
    /\ thr = NoThreads
    /\ conv = NoConv

\* "staticLib = _loadLibrary()" at the import of the module on posix:
\* the LabJackException of a library that cannot be loaded leaves the
\* import
LoadLibrary ==
    /\ module = "importing"
    /\ \E present \in BOOLEAN :
        module' = IF present THEN "ready" ELSE "failed"
    /\ UNCHANGED <<csVars, thr, devVars, restype, bus, disc, net, conv>>

\* the socket is made, the timeout set and the broadcast sent
Broadcast ==
    /\ module = "ready"
    /\ handle = "None"
    /\ net.phase # "listening"
    /\ \E call \in {[op |-> "listAll", pAddress |-> NoAddress,
                     firstFound |-> FALSE]}
                   \cup {[op |-> "openLabJack", pAddress |-> a,
                          firstFound |-> FALSE] : a \in NetAddresses}
                   \cup {[op |-> "openLabJack", pAddress |-> NoneAddress,
                          firstFound |-> TRUE]} :
        net' = [NoNet EXCEPT !.phase = "listening", !.op = call.op,
                             !.pAddress = call.pAddress,
                             !.firstFound = call.firstFound]
    /\ UNCHANGED <<csVars, thr, devVars, module, restype, bus, disc, conv>>

\* s.recv(128) returns the datagram d and the body of the loop runs.
\* listAll puts the identity of a datagram that passes verifyChecksum
\* into deviceList.  openLabJack compares it with pAddress and connects
\* (c: the connect of UE9TCPHandle that fails, "none" when the three go
\* through); the exception of a failed connect is printed and the loop
\* goes on.
Recv ==
    /\ net.phase = "listening"
    /\ net.idle < RecvTimeout
    /\ \E d \in Datagrams :
        \E v \in {verifyChecksum(d)} :
        \E dec \in {IF v.exc # NoExc \/ ~v.ret
                    THEN [exc |-> v.exc, id |-> NoIdentity]
                    ELSE IF net.op = "listAll" THEN listAllUE9Identity(d)
                    ELSE broadcastIdentity(d)} :
        \E c \in IF /\ net.op = "openLabJack"
                    /\ v.exc = NoExc /\ v.ret /\ dec.exc = NoExc
                    /\ Matches(dec.id, net.pAddress)
                 THEN {"none", "data", "stream", "modbus"}
                 ELSE {"skip"} :
        \E t \in {IF c = "skip" THEN [exc |-> NoExc, sk |-> sock]
                  ELSE UE9TCPHandle(c)} :
        \E conn \in {IF c = "skip" THEN "none"
                     ELSE IF t.exc = NoExc THEN "connected"
                     ELSE "refused"} :
            /\ net' = [net EXCEPT
                         !.idle = 0,
                         !.phase = IF conn = "connected" THEN "done" ELSE @,
                         !.ret = IF conn = "connected" THEN <<dec.id>>
                                 ELSE @,
                         !.raised = IF conn = "refused" THEN t.exc
                                    ELSE IF v.exc # NoExc THEN v.exc
                                    ELSE dec.exc,
                         !.list = IF /\ net.op = "listAll"
                                     /\ v.exc = NoExc /\ v.ret
                                     /\ dec.exc = NoExc
                                  THEN DictPut(@, dec.id) ELSE @,
                         !.seen = IF v.exc = NoExc /\ v.ret
                                     /\ dec.exc = NoExc
                                  THEN <<[resp |-> d, id |-> dec.id,
                                          by |-> net.op]>>
                                  ELSE @]
            /\ handle' = IF conn = "connected" THEN "TCP" ELSE handle
            /\ sock' = t.sk
    /\ UNCHANGED <<csVars, thr, module, restype, bus, disc, devType, usbDev, last, conv>>

\* time passes while recv waits
Tick ==
    /\ net.phase = "listening"
    /\ net.idle < RecvTimeout
    /\ net.elapsed < MaxTicks
    /\ net' = [net EXCEPT !.elapsed = @ + 1, !.idle = @ + 1]
    /\ UNCHANGED <<csVars, thr, devVars, module, restype, bus, disc, conv>>

\* recv raises socket.timeout: "except: pass" and "return deviceList" in
\* listAll, "except: raise LabJackException(LJE_LABJACK_NOT_FOUND)" in
\* openLabJack
Timeout ==
    /\ net.phase = "listening"
    /\ net.idle = RecvTimeout
    /\ net' = [net EXCEPT !.phase = "done",
                          !.raised = SocketTimeout,
                          !.exc = IF net.op = "listAll" THEN NoExc
                                  ELSE LJE_LABJACK_NOT_FOUND]
    /\ UNCHANGED <<csVars, thr, devVars, module, restype, bus, disc, conv>>

NextNetwork ==
    \/ LoadLibrary
    \/ Broadcast
    \/ Recv
    \/ Tick
    \/ Timeout

SpecNetwork == InitNetwork /\ [][NextNetwork]_vars

(***************************************************************************)
(* Specification SpecAddress: calls of DoubleToStringAddress and           *)
(* StringToDoubleAddress.                                                  *)
(***************************************************************************)
\* octets of the generated addresses
Octets == {0, 1, 9, 168, 192, 209, 255}

\* limbs of the generated numbers: 49320 * 65536 + 465 = 3232235985, and
\* 65535 * 65536 + 65535 = 2^32 - 1
Limbs == {0, 1, 255, 256, 465, 49320, 65535}

\* the dotted quad of four octets, written as Python writes an integer
Quad(a, b, c, d) ==
    Str(a) \o <<".">> \o Str(b) \o <<".">> \o Str(c) \o <<".">> \o Str(d)

ValidQuads == {Quad(a, b, c, d) : a, b, c, d \in Octets}

\* strings that are no dotted quad of four octets: three parts, five
\* parts, an empty part, a part that is no number, a part with a leading
\* zero, a part above 255, and the empty string
OtherStrings ==
    {<<"1", ".", "2", ".", "3">>,
     <<"1", ".", "2", ".", "3", ".", "4", ".", "5">>,
     <<"1", ".", ".", "2", ".", "3">>,
     <<"1", ".", "2", ".", "3", ".", "x">>,
     <<"1", "9", "2", ".", "1", "6", "8", ".", "0", "1", ".", "9">>,
     <<"2", "5", "6", ".", "0", ".", "0", ".", "0">>,
     << >>}

\* the caller has a string or a number to convert
InitAddress ==
    /\ frame = << >>
    /\ cs = [op |-> "init", prevOp |-> "init", pre |-> << >>,
             exc |-> NoExc, ret |-> FALSE]
    /\ handle = "None"
    /\ devType = LJ_dtU3
    /\ usbDev = "absent"
    /\ sock = NoSockets
    /\ last = NoCall
    /\ module = "ready"
    /\ restype = "c_int"
    /\ bus = NoBus
    /\ disc = NoDisc
    /\ net = NoNet
    /\ thr = NoThreads
    /\ \/ \E pString \in ValidQuads \cup OtherStrings :
              conv = [NoConv EXCEPT !.s = pString]
       \/ \E hi \in Limbs, lo \in Limbs :
              conv = [NoConv EXCEPT !.n = [hi |-> hi, lo |-> lo]]

CallDoubleToStringAddress ==
    /\ conv.op = "init"
    /\ conv' = [op |-> "DoubleToStringAddress", n |-> conv.n,
                s |-> DoubleToStringAddress(conv.n), exc |-> NoExc]
    /\ UNCHANGED <<csVars, thr, devVars, module, restype, bus, disc, net>>

CallStringToDoubleAddress ==
    /\ conv.op = "init"
    /\ \E r \in {StringToDoubleAddress(conv.s)} :
        conv' = [op |-> "StringToDoubleAddress", s |-> conv.s,
                 n |-> r.val, exc |-> r.exc]
    /\ UNCHANGED <<csVars, thr, devVars, module, restype, bus, disc, net>>

NextAddress ==
    \/ CallDoubleToStringAddress
    \/ CallStringToDoubleAddress

SpecAddress == InitAddress /\ [][NextAddress]_vars

(***************************************************************************)
(* Two callers on one session (specification SpecThreads).  Each runs      *)
(* _writeRead: self.write(command), then self.read(readLen), then          *)
(* _checkCommandBytes.  Nothing in Device takes a lock, so the calls of    *)
(* the two interleave at every write and read.  The device answers the     *)
(* requests in the order they arrive and LJUSB_BulkRead returns the        *)
(* oldest answer not yet read.                                             *)
(***************************************************************************)
\* an extended command of 8 bytes: command number num, one data byte
Command(num, data) == <<0, 248, 1, num, 0, 0, 0, data>>

\* the commands of the callers: two with the same command bytes and
\* different data, one with other command bytes
CallerCommands == {Command(8, 1), Command(8, 2), Command(9, 1)}

\* commandBytes of a command: results[1:4] of its response
CommandBytes(command) == PySlice(command, 1, 4)

\* the response of the device to a request: the command bytes, error code
\* 0, a data byte that depends on the request's, and the checksums
Respond(request) ==
    setChecksum(<<0, 248, 1, request[4], 0, 0, 0,
                  (request[8] + 100) % 256>>).buf

InitThreads ==
    /\ frame = << >>
    /\ cs = [op |-> "init", prevOp |-> "init", pre |-> << >>,
             exc |-> NoExc, ret |-> FALSE]
    /\ handle = "USB"
    /\ devType = LJ_dtU3
    /\ usbDev = "open"
    /\ sock = NoSockets
    /\ last = NoCall
    /\ module = "ready"
    /\ restype = "c_int"
    /\ bus = NoBus
    /\ disc = NoDisc
    /\ net = NoNet
    /\ conv = NoConv
    /\ thr = NoThreads

\* self.write(command, checksum = True) of _writeRead in caller t:
\* setChecksum works on the caller's list, the bytes go to the device and
\* its response joins the ones waiting.  A write that raises ends the
\* cycle.
CallerWrite ==
    /\ \E t \in Callers, command \in CallerCommands, w \in {"all", "err"} :
        /\ thr.pc[t] \in {"idle", "done"}
        /\ \E wr \in {DeviceWrite(handle, command, FALSE, TRUE, w)} :
            thr' = [thr EXCEPT
                      !.pc[t]  = IF wr.exc = NoExc THEN "written"
                                 ELSE "done",
                      !.cmd[t] = wr.buf,
                      !.res[t] = << >>,
                      !.exc[t] = wr.exc,
                      !.got[t] = "none",
                      !.ans[t] = << >>,
                      !.pipe   = IF wr.exc = NoExc
                                 THEN Append(@,
                                     [by   |-> t,
                                      req  |-> wr.calls[1].bytes,
                                      resp |-> Respond(
                                                  wr.calls[1].bytes)])
                                 ELSE @]
    /\ UNCHANGED <<csVars, devVars, module, restype, bus, disc, net, conv>>

\* a read that gives each caller the response to its own request
CallerRead_ownResponse ==
    /\ \E t \in Callers :
        /\ thr.pc[t] = "written"
        /\ thr.pipe # << >>
        /\ \E hd \in {Head(thr.pipe)} :
           \E rd \in {DeviceRead(handle, sock, 8, FALSE, FALSE,
                                 [err |-> FALSE,
                                  data |-> Respond(thr.cmd[t])])} :
           \E ck \in {checkCommandBytes(rd.ret, rd.kind,
                                        CommandBytes(thr.cmd[t]))} :
               thr' = [thr EXCEPT !.pc[t]  = "done",
                                  !.res[t] = rd.ret,
                                  !.exc[t] = ck.exc,
                                  !.got[t] = hd.by,
                                  !.ans[t] = hd.req,
                                  !.pipe   = Tail(@)]
    /\ UNCHANGED <<csVars, devVars, module, restype, bus, disc, net, conv>>

\* result = self.read(readLen) and self._checkCommandBytes(result,
\* commandBytes) of _writeRead in caller t: the read takes the oldest
\* response that waits, whoever wrote its request
CallerRead ==
    /\ \E t \in Callers :
        /\ thr.pc[t] = "written"
        /\ thr.pipe # << >>
        /\ \E hd \in {Head(thr.pipe)} :
           \E rd \in {DeviceRead(handle, sock, 8, FALSE, FALSE,
                                 [err |-> FALSE, data |-> hd.resp])} :
           \E ck \in {checkCommandBytes(rd.ret, rd.kind,
                                        CommandBytes(thr.cmd[t]))} :
               thr' = [thr EXCEPT !.pc[t]  = "done",
                                  !.res[t] = rd.ret,
                                  !.exc[t] = ck.exc,
                                  !.got[t] = hd.by,
                                  !.ans[t] = hd.req,
                                  !.pipe   = Tail(@)]
    /\ UNCHANGED <<csVars, devVars, module, restype, bus, disc, net, conv>>

NextThreads ==
    \/ CallerWrite
    \/ CallerRead

SpecThreads == InitThreads /\ [][NextThreads]_vars

(***************************************************************************)
(* Properties of the checksum functions (specification SpecChecksum).      *)
(***************************************************************************)
\* the reference of the frame layout: sum of f[lo..hi) (source indices),
\* accumulated from the left with arithmetic modulo, not with bit masks
RECURSIVE RefSum(_, _, _)
RefSum(f, lo, hi) ==
    IF hi <= lo THEN 0 ELSE RefSum(f, lo, hi - 1) + (f[hi] % 256)

RefFold(s) ==
    LET once == (s % 256) + (s \div 256)
    IN  (once % 256) + (once \div 256)

RefIsExtended(f) == (f[2] \div 8) % 16 = 15

RefSetChecksum(f) ==
    IF RefIsExtended(f)
    THEN LET s16 == RefSum(f, 6, Len(f))
             lo  == s16 % 256
             hi  == (s16 \div 256) % 256
             s8  == f[2] + f[3] + f[4] + lo + hi
         IN  [i \in 1..Len(f) |->
                 IF i = 1 THEN RefFold(s8)
                 ELSE IF i = 5 THEN lo
                 ELSE IF i = 6 THEN hi
                 ELSE f[i]]
    ELSE [i \in 1..Len(f) |->
             IF i = 1 THEN RefFold(RefSum(f, 1, Len(f))) ELSE f[i]]

\* C1: on a list of at least 8 bytes, verifyChecksum called on the result of
\* setChecksum returns True, and a second setChecksum on the result of a
\* first one leaves every byte of the list as it was.
C1_VerifyAfterSetAndIdempotent ==
    /\ (cs.op = "verifyChecksum" /\ cs.prevOp = "setChecksum"
            /\ Len(cs.pre) >= 8)
        => (cs.exc = NoExc /\ cs.ret = TRUE)
    /\ (cs.op = "setChecksum" /\ cs.prevOp = "setChecksum"
            /\ Len(cs.pre) >= 8)
        => (cs.exc = NoExc /\ frame = cs.pre)

\* C1 happens: an extended frame with a non-zero 16-bit checksum was
\* checksummed and then verified.
C1_Witness ==
    /\ cs.op = "verifyChecksum" /\ cs.prevOp = "setChecksum"
    /\ Len(frame) >= 8
    /\ RefIsExtended(frame)
    /\ Py(frame, 5) # 0
    /\ cs.ret = TRUE

\* C2: setChecksum on a list shorter than 8 bytes raises the
\* "Command does not contain enough bytes" LabJackException and leaves
\* every byte of the list as it was.
C2_ShortFrameRejected ==
    (cs.op = "setChecksum" /\ Len(cs.pre) < 8)
        => (cs.exc = LJE_TooShort /\ frame = cs.pre)

\* C2 happens: setChecksum was called on a 7-byte list and raised.
C2_Witness ==
    /\ cs.op = "setChecksum"
    /\ Len(cs.pre) = 7
    /\ cs.exc = LJE_TooShort

\* C3: on a list of at least 8 bytes setChecksum produces the frame of the
\* reference layout (16-bit sum of bytes 6.. in bytes 4 and 5 and folded sum
\* of bytes 1..5 in byte 0 for an extended command, folded sum of bytes 1..
\* in byte 0 otherwise, all other bytes unchanged), and the command of the
\* docstring gets the checksum byte 7.
C3_SetChecksumMatchesReference ==
    (cs.op = "setChecksum" /\ Len(cs.pre) >= 8)
        => /\ cs.exc = NoExc
           /\ frame = RefSetChecksum(cs.pre)
           /\ (cs.pre = SampleCommand => Py(frame, 0) = 7)

\* C3 happens: the docstring's command was checksummed.
C3_Witness ==
    /\ cs.op = "setChecksum"
    /\ cs.pre = SampleCommand
    /\ frame = <<7, 248, 3, 11, 0, 0, 0, 0, 0, 0, 0, 0>>

\* C4: verifyChecksum returns a boolean and raises nothing, whatever list
\* it is given.
C4_VerifyNeverRaises ==
    cs.op = "verifyChecksum" => cs.exc = NoExc

\* C5: after verifyChecksum returns, every byte of the caller's list is as
\* it was before the call.
C5_VerifyLeavesFrameUnchanged ==
    (cs.op = "verifyChecksum" /\ cs.exc = NoExc) => frame = cs.pre

(***************************************************************************)
(* Properties of the response validation (specification SpecValidate).     *)
(***************************************************************************)
\* the four checks of a response, each on its own
RefSentinel(r) == Len(r) >= 2 /\ r[1] = 184 /\ r[2] = 184

RefEchoed(r, commandBytes) ==
    /\ Len(r) >= 1 + Len(commandBytes)
    /\ \A k \in 1..Len(commandBytes) : r[1 + k] = commandBytes[k]

RefChecksumOk(r) == Len(r) >= 8 /\ r = RefSetChecksum(r)

RefErrorByte(r) == IF Len(r) >= 7 THEN r[7] ELSE 0

\* the error of the first check that fails, in the order sentinel, echoed
\* command bytes, checksum, error byte
RefValidate(r, commandBytes) ==
    IF RefSentinel(r) THEN LJE_BadChecksum
    ELSE IF ~RefEchoed(r, commandBytes) THEN LJE_CommandBytes
    ELSE IF ~RefChecksumOk(r) THEN LJE_Checksum
    ELSE IF RefErrorByte(r) # 0 THEN LJE_DeviceError
    ELSE NoExc

\* C6: a response that _writeRead hands to _checkCommandBytes is accepted
\* only if the sentinel, echo, checksum and error-byte checks all pass, and
\* otherwise the exception raised is the one of the first check that fails,
\* in that order.
C6_ValidationReportsFirstFailingCheck ==
    (last.op = "_writeRead" /\ last.checked)
        => last.exc = RefValidate(last.raw, last.cmd)

C8_CloseOnClosedSessionIsNoOp ==
    (last.op = "close" /\ last.pre = "None") => last.calls = << >>

\* C9: when close() on a TCP session returns, every socket of the handle
\* whose close did not raise is closed.
C9_TcpCloseReleasesEverySocket ==
    (last.op = "close" /\ last.pre = "TCP") =>
        \A name \in {"data", "stream", "modbus"} :
            name # last.raised => sock[name] = "closed"

Delivered(r, n) == ~r.err /\ Len(r.data) = n

\* the transport took every byte of the write and delivered n bytes, on the
\* first read or, after a first read that failed, on the second cycle
TransportWorks(e, n) ==
    /\ e.w1 = "all"
    /\ \/ Delivered(e.r1, n)
       \/ e.r1.err /\ e.w2 = "all" /\ Delivered(e.r2, n)

\* the size of the response ping reads
PingSize == IF devType = LJ_dtUE9 THEN 2 ELSE 40

\* C11: on an open session of a UE9, U3 or U6 whose transport takes the
\* probe and delivers the response, ping() returns True.
C11_PingTrueWhenTransportWorks ==
    (/\ last.op = "ping"
     /\ last.pre # "None"
     /\ TransportWorks(last.env, PingSize)) => last.ok

\* C12: reset() on an open session completes without error when the
\* transport takes the reset pattern and returns 4 bytes, and fails with
\* the "Unable to reset" error when the write or the read fails or the
\* confirmation has another length.
C12_ResetFailsExactlyOnBadConfirmation ==
    (last.op = "reset" /\ last.pre # "None") =>
        /\ (last.env.w1 = "all" /\ Delivered(last.env.r1, 4))
               => last.exc = NoExc
        /\ (last.env.w1 = "err" \/ ~Delivered(last.env.r1, 4))
               => last.exc = LJE_Reset

WriteCalls == {"LJUSB_BulkWrite", "modbus.send", "data.send"}

ReadCalls == {"LJUSB_BulkRead", "modbus.recv", "data.recv", "stream.recv"}

\* the calls of the sequence calls whose function is in fns, in order
CallsOf(calls, fns) == SelectSeq(calls, LAMBDA c : c.fn \in fns)

\* the first read of the register operation raised the retry signal: the
\* write did not raise, the recv failed and the reconnect went through
RetrySignalled ==
    /\ last.pre = "TCP"
    /\ last.env.w1 # "err"
    /\ last.env.r1.err
    /\ last.env.r1.conn

RegisterOps == {"readRegister", "writeRegister"}

\* C13: a register operation makes one write-then-read cycle, and a second
\* one exactly when the first read raised the retry signal; it never makes
\* a third, and an exception of the second cycle reaches the caller.
C13_AtMostOneRetry ==
    last.op \in RegisterOps =>
        LET io     == CallsOf(last.calls, WriteCalls \cup ReadCalls)
            writes == Len(CallsOf(last.calls, WriteCalls))
            reads  == Len(CallsOf(last.calls, ReadCalls))
        IN  /\ writes <= 2
            /\ reads <= writes
            /\ \A i \in DOMAIN io :
                   io[i].fn \in (IF i % 2 = 1 THEN WriteCalls ELSE ReadCalls)
            /\ writes = 2 <=> RetrySignalled
            /\ (writes = 2 /\ (last.env.w2 = "err" \/ last.env.r2.err))
                   => last.exc # NoExc

\* C13 happens: a register read on a TCP session whose first recv failed
\* made a second cycle, which returned the registers.
C13_Witness ==
    /\ last.op = "readRegister"
    /\ RetrySignalled
    /\ Len(CallsOf(last.calls, WriteCalls)) = 2
    /\ Len(CallsOf(last.calls, ReadCalls)) = 2
    /\ last.exc = NoExc
    /\ last.ret # << >>

\* C14: a readRegister whose first read delivers the pair 0xB8, 0xB8 makes
\* exactly one more write-then-read cycle (and returns the registers of
\* its response).
C14_SentinelPairIsRetried ==
    (/\ last.op = "readRegister"
     /\ last.pre # "None"
     /\ last.env.w1 = "all"
     /\ ~last.env.r1.err
     /\ last.env.r1.data = <<184, 184>>)
        => /\ Len(CallsOf(last.calls, WriteCalls)) = 2
           /\ Len(CallsOf(last.calls, ReadCalls)) = 2

\* C15: when the second cycle of a register operation fails too, the
\* caller gets the exception of the first failure (the one the first read
\* raised).
C15_SecondFailureSurfacesFirstError ==
    (/\ last.op \in RegisterOps
     /\ RetrySignalled
     /\ (last.env.w2 = "err" \/ last.env.r2.err))
        => last.exc = LJE_ReadOkNow

\* C16: a read on the register socket of a TCP session whose recv raises
\* makes exactly one connect of a new register socket; it raises the
\* socket error of the recv when the connect fails and the LabJackException
\* "Read had a problem, but it's ok now." when it succeeds, and returns no
\* data.  A recv that succeeds makes no connect.
C16_RegisterReadReconnectsOnce ==
    (/\ last.op = "read"
     /\ last.pre = "TCP"
     /\ last.flags = <<FALSE, TRUE>>)
        => LET connects == Len(CallsOf(last.calls, {"modbus.connect"}))
               recvs    == Len(CallsOf(last.calls, {"modbus.recv"}))
           IN  /\ recvs = 1
               /\ IF last.env.r1.err
                  THEN /\ connects = 1
                       /\ last.ret = << >>
                       /\ last.exc = IF last.env.r1.conn THEN LJE_ReadOkNow
                                     ELSE SocketError
                  ELSE /\ connects = 0
                       /\ last.exc = NoExc

\* C16 happens: the recv of a register read failed and so did the connect;
\* read raised the socket error and left the register socket unconnected.
C16_Witness ==
    /\ last.op = "read"
    /\ last.pre = "TCP"
    /\ last.flags = <<FALSE, TRUE>>
    /\ last.env.r1.err
    /\ ~last.env.r1.conn
    /\ last.exc = SocketError
    /\ sock.modbus = "unconnected"

\* C17: a write with modbus = True puts no checksum into the caller's list
\* and sends the list as it was given (behind the pad, if any), whatever
\* the argument checksum is.
C17_RegisterWriteHasNoChecksum ==
    (last.op = "write" /\ last.pre # "None" /\ last.flags[1]) =>
        /\ last.buf = last.arg
        /\ last.exc # LJE_TooShort
        /\ \A i \in DOMAIN last.calls :
               last.calls[i].bytes \in {last.arg, <<0, 0>> \o last.arg}

\* C18: the bytes a write hands to the transport, USB or TCP, are the
\* payload behind the pad 0, 0 when modbus = True and the payload alone
\* otherwise.
C18_RegisterWriteIsPadded ==
    (last.op = "write" /\ last.pre # "None") =>
        \A i \in DOMAIN last.calls :
            last.calls[i].bytes =
                IF last.flags[1] THEN <<0, 0>> \o last.buf ELSE last.buf

\* C19: a write that handed its buffer to the transport, USB or TCP,
\* returns normally only when the transport took every byte; after a
\* partial write it raises the "Could only write" error.
C19_PartialWriteRaises ==
    (last.op = "write" /\ last.pre # "None" /\ last.calls # << >>) =>
        /\ last.exc = NoExc => last.env.w1 = "all"
        /\ last.env.w1 = "part" => last.exc = LJE_ShortWrite

\* C20: a read of MaxReadLen bytes on an open session, USB or TCP, that
\* returns normally returns exactly MaxReadLen bytes.
C20_ReadReturnsAllOrRaises ==
    (last.op = "read" /\ last.pre # "None" /\ last.exc = NoExc) =>
        Len(last.ret) = MaxReadLen

(***************************************************************************)
(* Properties of writeRegister (specification Spec), continued.            *)
(***************************************************************************)
\* the response of a register write confirms the request: it carries the
\* unit, the function code and the address of the request
Confirms(request, response) ==
    /\ Len(response) >= 10
    /\ \A i \in 7..10 : response[i] = request[i]

\* C30: writeRegister returns normally, for a single register, a float and
\* a list of values, only if the response confirms the request.
C30_WriteRegisterReturnsOnlyWhenConfirmed ==
    (last.op = "writeRegister" /\ last.exc = NoExc) =>
        Confirms(last.buf, last.ret)

(***************************************************************************)
(* Properties of openLabJack and listAll over USB (specification           *)
(* SpecDiscovery).                                                         *)
(***************************************************************************)
DiscoveryOps == {"openLabJack", "listAll"}

\* C21: an openLabJack or a listAll that fails after the transport or the
\* decoding of a response raised an exception raises that exception.
C21_ErrorsSurfaceUnchanged ==
    (disc.op \in DiscoveryOps /\ disc.raised \in PyExceptions
                              /\ disc.exc # NoExc) =>
        disc.exc = disc.raised

\* C22: when openLabJack over USB returns or raises, the only device index
\* it leaves open is the one of the device it returns.
C22_OpenLeavesOnlyReturnedOpen ==
    disc.op = "openLabJack" =>
        disc.open \subseteq (IF disc.exc = NoExc THEN {disc.idx} ELSE {})

\* the decoder of the listAll function of a family
ListIdentity(deviceType, rcvDataBuff) ==
    IF deviceType = LJ_dtUE9 THEN listAllUE9Identity(rcvDataBuff)
    ELSE IF deviceType = LJ_dtU3 THEN listAllU3Identity(rcvDataBuff)
    ELSE listAllU6Identity(rcvDataBuff)

\* the indices of the devices that open, take the command and answer with
\* a response the listAll function of the family decodes
Identified(deviceType) ==
    {i \in 1..Len(bus) :
        /\ bus[i].open
        /\ bus[i].w = "all"
        /\ ListIdentity(deviceType, bus[i].data).exc = NoExc}

\* C23: listAll over USB returns, whatever the other devices do, and the
\* identity of every device that can be identified is in what it returns.
C23_ListAllSkipsFailingDevices ==
    disc.op = "listAll" =>
        /\ disc.exc = NoExc
        /\ \A i \in Identified(disc.family) :
               ListIdentity(disc.family, bus[i].data).id \in disc.list

OpenCalls == {i \in 1..Len(disc.calls) : disc.calls[i].fn = "LJUSB_OpenDevice"}

\* the call at position i of disc.calls is followed by a close of the same
\* device index with the same handle
ClosedLater(i) ==
    \E j \in (i + 1)..Len(disc.calls) :
        /\ disc.calls[j].fn = "LJUSB_CloseDevice"
        /\ disc.calls[j].n = disc.calls[i].n
        /\ disc.calls[j].h = disc.calls[i].h

\* C24: when listAll over USB returns or raises, no device index is open
\* and a close was issued for every handle it got from LJUSB_OpenDevice,
\* the handle of a failed open included; what it returns is exactly the
\* identities of the devices that can be identified.
C24_ListAllClosesEverything ==
    disc.op = "listAll" =>
        /\ disc.open = {}
        /\ \A i \in OpenCalls : ClosedLater(i)
        /\ disc.exc = NoExc =>
               disc.list = {ListIdentity(disc.family, bus[i].data).id :
                            i \in Identified(disc.family)}

\* the identity the wire layout of the UE9 gives the response r (r[j] of
\* the layout is r[j + 1] here)
UE9Layout(r) ==
    [localID      |-> BitAnd(r[9], 255),
     serialNumber |-> 268435456 + r[31] * 65536 + r[30] * 256 + r[29],
     ipAddress    |-> Str(r[14]) \o <<".">> \o Str(r[13]) \o <<".">>
                          \o Str(r[12]) \o <<".">> \o Str(r[11])]

\* C26: every identity read from a UE9 identification response is the one
\* of the wire layout, its serial number is in 0x10000000..0x10FFFFFF, and
\* the decoders of _makeDeviceFromHandle, of listAll and of the broadcast
\* answers read the same identity from the response.
C26_UE9IdentityFollowsLayout ==
    disc.family = LJ_dtUE9 =>
        \A k \in 1..Len(disc.seen) :
            /\ disc.seen[k].id = UE9Layout(disc.seen[k].resp)
            /\ disc.seen[k].id.serialNumber \in 268435456..285212671
            /\ makeUE9Identity(disc.seen[k].resp).id = disc.seen[k].id
            /\ listAllUE9Identity(disc.seen[k].resp).id = disc.seen[k].id
            /\ broadcastIdentity(disc.seen[k].resp).id = disc.seen[k].id

\* openLabJack returned the UE9 that answered with IdResponse(3)
C26_Witness ==
    /\ disc.op = "openLabJack"
    /\ disc.family = LJ_dtUE9
    /\ disc.exc = NoExc
    /\ disc.ret = <<[localID |-> 31, serialNumber |-> 274816603,
                     ipAddress |-> <<"4", "6", ".", "4", "3", ".",
                                     "4", "0", ".", "3", "7">>]>>

\* C27: every identity read from a U3 or U6 identification response has
\* the little-endian serial number of r[15:19] and the local ID r[21], and
\* no network address: "" when the device is opened, None when it is
\* listed; the decoders of the two paths read the same numbers.
C27_U3IdentityFollowsLayout ==
    disc.family \in {LJ_dtU3, LJ_dtU6} =>
        \A k \in 1..Len(disc.seen) :
            /\ disc.seen[k].id.serialNumber =
                   disc.seen[k].resp[16] + disc.seen[k].resp[17] * 256
                       + disc.seen[k].resp[18] * 65536
                       + disc.seen[k].resp[19] * 16777216
            /\ disc.seen[k].id.localID = BitAnd(disc.seen[k].resp[22], 255)
            /\ disc.seen[k].id.ipAddress =
                   IF disc.seen[k].by = "open" THEN << >> ELSE <<"None">>
            /\ makeU3Identity(disc.seen[k].resp).id.serialNumber
                   = listAllU3Identity(disc.seen[k].resp).id.serialNumber
            /\ makeU3Identity(disc.seen[k].resp).id.localID
                   = listAllU6Identity(disc.seen[k].resp).id.localID

\* listAll found the U3 that answered with IdResponse(3)
C27_Witness ==
    /\ disc.op = "listAll"
    /\ disc.family = LJ_dtU3
    /\ [localID |-> 70, serialNumber |-> 1027225396,
        ipAddress |-> <<"None">>] \in disc.list

(***************************************************************************)
(* Properties of the discovery over Ethernet (specification SpecNetwork).  *)
(***************************************************************************)
\* C25: the receive loop of listAll over Ethernet does not run longer than
\* the listen timeout, and it ends without an exception.
C25_NetworkListAllIsTimeBounded ==
    net.op = "listAll" =>
        /\ net.phase = "listening" => net.elapsed <= RecvTimeout
        /\ net.phase = "done" => net.exc = NoExc

\* C28: the import of the module completes whether or not the native
\* library can be loaded.
C28_ImportSurvivesMissingLibrary == module # "failed"

(***************************************************************************)
(* Properties of the address conversions (specification SpecAddress).      *)
(***************************************************************************)
\* "192.168.1.209"
SampleAddress ==
    <<"1", "9", "2", ".", "1", "6", "8", ".", "1", ".", "2", "0", "9">>

\* 3232235985 = 49320 * 65536 + 465
SampleNumber == [hi |-> 49320, lo |-> 465]

\* C29: the two conversions give the values of their docstrings, a valid
\* dotted quad converted to a number converts back to itself, and a number
\* of 0..2^32-1 converted to a string converts back to itself.
C29_AddressRoundTrip ==
    /\ DoubleToStringAddress(SampleNumber) = SampleAddress
    /\ StringToDoubleAddress(SampleAddress)
           = [exc |-> NoExc, val |-> SampleNumber]
    /\ (conv.op = "StringToDoubleAddress" /\ conv.s \in ValidQuads) =>
           /\ conv.exc = NoExc
           /\ DoubleToStringAddress(conv.n) = conv.s
    /\ conv.op = "DoubleToStringAddress" =>
           StringToDoubleAddress(conv.s) = [exc |-> NoExc, val |-> conv.n]

\* StringToDoubleAddress("192.168.1.209") returned 3232235985
C29_Witness ==
    /\ conv.op = "StringToDoubleAddress"
    /\ conv.s = SampleAddress
    /\ conv.exc = NoExc
    /\ conv.n = SampleNumber

(***************************************************************************)
(* Properties of the session (specification Spec), continued.              *)
(***************************************************************************)
\* C31: after a write, read, _writeRead, register operation, ping or reset
\* the session has the handle it had before, whether the call failed or
\* not, and a USB device stays open; only close() takes the handle away.
C31_OnlyCloseClosesTheSession ==
    /\ last.op \notin {"init", "close"} =>
           /\ handle = last.pre
           /\ handle = "USB" => usbDev = "open"
           /\ handle = "TCP" => \A n \in DOMAIN sock : sock[n] # "closed"
    /\ last.op = "close" => handle = "None"

\* a reset that failed on an open USB session, which is still open
C31_Witness ==
    /\ last.op = "reset"
    /\ last.pre = "USB"
    /\ last.exc # NoExc
    /\ handle = "USB"
    /\ usbDev = "open"

\* the [0, 0] pad of a register write on the handle h
ModbusPad(h) == IF h = "TCP" THEN << >> ELSE <<0, 0>>

\* C37: every write of a register operation hands the transport the
\* caller's request, behind the pad on USB; the caller's list is the same
\* after the operation, and the write of a retry sends the bytes of the
\* first write.
C37_RetrySendsTheSameBytes ==
    last.op \in RegisterOps =>
        /\ \A k \in 1..Len(last.calls) :
               last.calls[k].fn \in WriteCalls =>
                   last.calls[k].bytes = ModbusPad(last.pre) \o last.buf
        /\ last.op = "readRegister" =>
               last.buf = readHoldingRegistersRequest(last.arg[1],
                                                      last.arg[2])
        /\ Len(CallsOf(last.calls, WriteCalls)) = 2 =>
               CallsOf(last.calls, WriteCalls)[1].bytes
                   = CallsOf(last.calls, WriteCalls)[2].bytes

\* a readRegister that wrote its request twice
C37_Witness ==
    /\ last.op = "readRegister"
    /\ RetrySignalled
    /\ Len(CallsOf(last.calls, WriteCalls)) = 2
    /\ CallsOf(last.calls, WriteCalls)[2].bytes
           = readHoldingRegistersRequest(5000, 2)

(***************************************************************************)
(* Properties of the address conversions (specification SpecAddress),      *)
(* continued.                                                              *)
(***************************************************************************)
\* C39: StringToDoubleAddress raises "IP address not correctly formatted"
\* or returns a number of 0..2^32-1.
C39_StringToDoubleAddressInRange ==
    (conv.op = "StringToDoubleAddress" /\ conv.exc = NoExc) =>
        /\ conv.n.hi \in 0..65535
        /\ conv.n.lo \in 0..65535

(***************************************************************************)
(* Properties of the receive loops over Ethernet (specification            *)
(* SpecNetwork).                                                           *)
(***************************************************************************)
\* a datagram the loops may decode: its checksum is right and it holds the
\* 34 bytes the MAC address is cut from
ValidDatagram(d) == RefChecksumOk(d) /\ Len(d) >= 34

\* C33: a datagram whose checksum is wrong, or that is too short to verify
\* or to parse, gives no identity to listAll or openLabJack over Ethernet
\* and does not end the receive loop: the loop ends by the listen timeout
\* or by the session openLabJack returns.
C33_BadDatagramsAreSkipped ==
    /\ \A k \in DOMAIN net.seen : ValidDatagram(net.seen[k].resp)
    /\ \A id \in net.list :
           \E d \in Datagrams :
               ValidDatagram(d) /\ id = listAllUE9Identity(d).id
    /\ \A k \in DOMAIN net.ret :
           \E d \in Datagrams :
               ValidDatagram(d) /\ net.ret[k] = broadcastIdentity(d).id
    /\ net.phase = "done" =>
           \/ net.raised = SocketTimeout
           \/ net.op = "openLabJack" /\ net.ret # << >>
    /\ net.raised \in {IndexError, StructError} => net.phase = "listening"

\* a datagram that was skipped with an exception, in a loop that went on
\* to time out later
C33_Witness ==
    /\ net.op = "listAll"
    /\ net.phase = "listening"
    /\ net.raised = IndexError
    /\ net.list = {listAllUE9Identity(Answer(3)).id}

\* C35: openLabJack over Ethernet with firstFound = True and pAddress = None
\* returns the first UE9 whose answer is valid; LJE_LABJACK_NOT_FOUND is
\* raised only when no valid answer came before the timeout.
C35_FirstFoundOpensFirstAnswer ==
    (net.op = "openLabJack" /\ net.firstFound
                           /\ net.pAddress = NoneAddress) =>
        /\ net.seen # << >> =>
               \/ net.phase = "done" /\ net.exc = NoExc
                                     /\ net.ret = <<net.seen[1].id>>
               \/ net.raised = LJE_Connect
        /\ net.exc = LJE_LABJACK_NOT_FOUND => net.seen = << >>

\* C38: when UE9TCPHandle raises LJE_Connect, none of the sockets it made is
\* open or waiting to be closed.
C38_FailedConnectLeavesNoSocket ==
    net.raised = LJE_Connect =>
        \A i \in DOMAIN SocketNames :
            sock[SocketNames[i]] \in {"absent", "closed"}

(***************************************************************************)
(* Properties of the search and of Device.open over USB (specification     *)
(* SpecDiscovery).                                                         *)
(***************************************************************************)
\* the attribute a search asks for, by the value given: a string is a
\* network address, an integer of one byte a local ID, a larger one a
\* serial number
HasRequested(id, pAddress) ==
    IF pAddress.kind = "str" THEN id.ipAddress = pAddress.val
    ELSE IF pAddress.val < 256 THEN id.localID = pAddress.val
    ELSE id.serialNumber = pAddress.val

\* the device at index i is identified and has the attribute asked for
Candidate(deviceType, i, pAddress) ==
    \E m \in {makeDeviceFromHandle("USB", deviceType, i, bus[i])} :
        m.exc = NoExc /\ HasRequested(m.id, pAddress)

\* C34: a search of openLabJack over USB returns the device of the lowest
\* index whose requested attribute has the value given; a search by local
\* ID returns no device with another local ID.
C34_SearchReturnsRequestedAttribute ==
    (disc.op = "openLabJack" /\ disc.mode = "search"
                            /\ disc.exc = NoExc) =>
        /\ HasRequested(disc.ret[1], disc.pAddress)
        /\ \A j \in 1..(disc.idx - 1) :
               ~Candidate(disc.family, j, disc.pAddress)

\* C36: after Device.open returned, the handle is the one of the device
\* opened and asDict() gives the localID, the serialNumber and, for a UE9,
\* the ipAddress of the device openLabJack returned.
C36_OpenDescribesTheDevice ==
    (disc.op = "Device.open" /\ disc.exc = NoExc) =>
        /\ disc.dev.handle = "USB"
        /\ asDict(disc.dev).localID = disc.ret[1].localID
        /\ asDict(disc.dev).serialNumber = disc.ret[1].serialNumber
        /\ disc.family = LJ_dtUE9 =>
               asDict(disc.dev).ipAddress = disc.ret[1].ipAddress

(***************************************************************************)
(* Properties of two callers on one session (specification SpecThreads).   *)
(***************************************************************************)
\* C32: no lock orders the write-then-read cycles of two callers of one
\* session: a read returns the response to the oldest request not yet
\* answered, whichever caller wrote it, and the caller notices only when
\* the command bytes of that request are not its own.
C32_ReadsAreNotTiedToTheCaller ==
    \A t \in Callers :
        thr.got[t] # "none" =>
            /\ thr.res[t] = Respond(thr.ans[t])
            /\ thr.exc[t] = IF CommandBytes(thr.ans[t])
                                  = CommandBytes(thr.cmd[t])
                            THEN NoExc ELSE LJE_CommandBytes

\* caller A has the response to the request of caller B, and no exception
C32_Witness ==
    /\ thr.pc["A"] = "done"
    /\ thr.got["A"] = "B"
    /\ thr.exc["A"] = NoExc
    /\ thr.res["A"] # Respond(thr.cmd["A"])
    /\ thr.res["A"] = Respond(thr.cmd["B"])

====
